---- MODULE Spec2Model ----
(***************************************************************************)
(* Blob retrieval (download.Cat / CatReadCloser / CatEz), the stream       *)
(* adapters of utils (ReadCloserToReader, fakeReader) and blob paranoia    *)
(* (paranoia.BlobReaderParanoia) of gb, as state machines.                 *)
(*                                                                         *)
(* Bytes are bits, a key is a small number, and SHA-256 is an injective    *)
(* numbering of byte sequences (an ideal, collision-free digest).          *)
(***************************************************************************)
EXTENDS Integers, Sequences, FiniteSets, TLC

\* ------------------------------------------------------------------ bounds
\* longest file content (bytes) a hash of the retrieval model stands for
MaxContent == 2
\* largest blob_entries.offset of the retrieved entry
MaxOff == 1

Byte == 0 .. 1
Keys == {1, 2}

RECURSIVE SeqsOfLen(_)
SeqsOfLen(n) ==
    IF n = 0 THEN {<<>>}
    ELSE {<<b>> \o s : b \in Byte, s \in SeqsOfLen(n - 1)}

SeqsUpTo(n) == UNION {SeqsOfLen(k) : k \in 0 .. n}

Take(s, n) == SubSeq(s, 1, IF n < Len(s) THEN n ELSE Len(s))

Drop(s, n) == SubSeq(s, n + 1, Len(s))

\* ------------------------------------------------------------------ digest
\* sha256 as a collision-free numbering of byte sequences (bijective base 2)
RECURSIVE SHA256(_)
SHA256(s) ==
    IF s = <<>> THEN 0
    ELSE (s[1] + 1) + 2 * SHA256(Tail(s))

\* ------------------------------------------------------------------ cipher
Xor(a, b) == (a + b) % 2

\* keystream byte of `key` at absolute blob position `pos`
Keystream(key, pos) == (((pos + 1) * key) \div 2) % 2

\* crypto.DecryptBlobEntry(in, seekOffset, key): a stream cipher addressed by
\* the absolute offset inside the blob; output length = input length
DecryptBlobEntry(data, seekOffset, key) ==
    [i \in 1 .. Len(data) |-> Xor(data[i], Keystream(key, seekOffset + i - 1))]

\* the packer's side of the same cipher (XOR with the same keystream)
EncryptBlobEntry(data, seekOffset, key) ==
    [i \in 1 .. Len(data) |-> Xor(data[i], Keystream(key, seekOffset + i - 1))]

\* ------------------------------------------------------------- compression
\* compression.ByAlgName: "" stores the bytes as they are; "zstd" is a framed
\* format: a magic byte, then the payload transformed (here: inverted)
Algs == {"", "zstd"}

Invert(s) == [i \in 1 .. Len(s) |-> 1 - s[i]]

Compress(alg, plain) ==
    IF alg = "" THEN plain ELSE <<1>> \o Invert(plain)

\* what the streaming decoder has produced after consuming `data`; atEOF says
\* whether its input has ended: [err, out]
DecodePrefix(alg, data, atEOF) ==
    IF alg = "" THEN [err |-> FALSE, out |-> data]
    ELSE IF data = <<>> THEN [err |-> atEOF, out |-> <<>>]
    ELSE IF data[1] # 1 THEN [err |-> TRUE, out |-> <<>>]
    ELSE [err |-> FALSE, out |-> Invert(Tail(data))]

\* Decompress of a whole bounded input, read to its end: [err, out]
Decompress(alg, data) == DecodePrefix(alg, data, TRUE)

\* ------------------------------------------------------------------ labels
\* storage.readable_label as a sequence of character codes ('a' = 1, 'b' = 2)
\* compared the way SQLite's BINARY collation compares TEXT (memcmp, then
\* the shorter string first)
RECURSIVE LabelLess(_, _)
LabelLess(a, b) ==
    IF b = <<>> THEN FALSE
    ELSE IF a = <<>> THEN TRUE
    ELSE IF a[1] # b[1] THEN a[1] < b[1]
    ELSE LabelLess(Tail(a), Tail(b))

\* ================================================================= state
VARIABLES
    \* --- metadata store and backends (retrieval model)
    fileContent,   \* the bytes that were backed up under catHash
    catHash,       \* the hash handed to Cat
    hashes,        \* table hashes: set of [hash, size]
    blob_entries,  \* table blob_entries: set of rows
    blobs,         \* table blobs: set of rows
    blob_storage,  \* table blob_storage: rows in insertion order
    backend,       \* backend[storage_id][path]: the bytes of the stored object
    files,         \* table files: set of rows
    lastExec,      \* <<>> or <<the last statement executed and its outcome>>
    \* --- CatEz / CatReadCloser and the stream they return
    cPc,           \* position of CatEz
    tx,            \* "none" | "open" | "done"
    txLog,         \* the operations performed on tx, in order
    row,           \* <<>> or <<the scanned row>>
    req,           \* <<>> or <<the DownloadSection request>>
    pipe,          \* <<>> or <<[seek, key, alg]>>: the decrypt/decompress wrap
    catPos,        \* bytes pulled from the backend section so far
    catOut,        \* bytes handed to the caller so far
    sState,        \* "none" | "open" | "eof" | "err"
    sErr,          \* "" | "Backend" | "Decompress"
    sClosed,       \* the caller closed the returned stream
    \* --- utils.ReadCloserToReader: the fakeReader around a backend ReadCloser
    rcLen,         \* bytes the backend ReadCloser holds
    rcEnd,         \* "EOF" | "error": how its last Read ends
    rcPos,         \* bytes read from it so far
    rcCloses,      \* calls of its Close so far
    frStarted,     \* fr.pipeR # nil: the pipe and the copying goroutine exist
    pipeBuf,       \* the bytes of the pipe write in progress, not yet read
    pipeW,         \* "open" | "EOF" | "error": pipeW.CloseWithError
    gPc,           \* the copying goroutine: "none" | "read" | "write" | ...
    cons,          \* the consumer: "idle" | "reading" | "EOF" | "error"
    received,      \* the positions of the bytes the consumer has received
    strClosed,     \* the consumer closed the stream it was given
    rcKind,        \* what ReadCloserToReader was given: "ReadCloser" | "fakeReadCloser"
    copyPc,        \* utils.Copy: "none" | "direct" | "wrapped" | "returned" | "panicked"
    \* --- paranoia: DownloadEntireBlob and BlobReaderParanoia
    blobRow,       \* <<>> or <<the blobs row of the blob id>>
    placement,     \* <<>> or <<the blob_storage path on the selected storage>>
    pPc,           \* position of the run
    pErr,          \* "" or the panic that ended the run
    dlReqs,        \* the DownloadSection requests issued
    dlData,        \* the bytes the download stream has delivered
    dlEnd,         \* "" | "EOF" | "error": the end the stream has reported
    hasherPostEnc, \* the bytes written to hasherPostEnc by the TeeReader
    rowsSeen,      \* the blob_entries rows scanned so far
    verify,        \* the bytes written to the current entry's verify hasher
    remain,        \* the decrypted padding
    catAfter,      \* <<>> or <<the Cat of an entry of the verified blob>>
    \* --- paranoia.BlobParanoia: the loop over the lines of standard input
    stdinLines,    \* strings.Split(string(stdin), "\n")
    storageOk,     \* the ok of storage.StorageSelect(label)
    lineIdx,       \* lines examined so far
    bpPc,          \* "start" | "loop" | "running" | "returned" | "panicked"
    bpLog,         \* what the loop has done, in order
    sz,            \* the bytes downloaded by the verified blobs
    \* --- utils.FormatHTTPRange
    rOffset,       \* the offset handed to FormatHTTPRange
    rLength,       \* the length handed to it
    rOut,          \* <<>> or <<the string it returned>>
    \* --- utils.HasherSizer: one writer and the callers of Size()
    hsSize,        \* hs.size
    hsHasher,      \* the bytes written to hs.hasher
    hsWrites,      \* the Write calls still to be issued
    hsIssued,      \* the Write calls issued so far
    wPc,           \* the writer: "idle" | "added" (between AddInt64 and hasher.Write)
    sizeResults,   \* the results of the Size() calls, in the order of their loads
    \* --- utils.WalkFiles: the walker and the processor goroutine
    walkPc,        \* WalkFiles: "walk" | "visit" | "close" | "waitdone" | "returned" | "panicked"
    procPc,        \* the goroutine: "range" | "fn" | "signal" | "exited" | "panicked"
    filesCh,       \* the files buffered in filesCh, oldest first
    chClosed,      \* close(filesCh) has happened
    handed,        \* the files visitFile has sent, in the order of the visits
    invoked,       \* the files fn has been called with, in the order of the calls
    completed      \* the calls of fn that have returned

dbVars == <<fileContent, catHash, hashes, blob_entries, blobs, blob_storage, backend,
            files, lastExec>>
catVars == <<cPc, tx, txLog, row, req, pipe, catPos, catOut, sState, sErr, sClosed>>
streamVars == <<rcLen, rcEnd, rcPos, rcCloses, frStarted, pipeBuf, pipeW, gPc,
                cons, received, strClosed, rcKind, copyPc>>
parVars == <<blobRow, placement, pPc, pErr, dlReqs, dlData, dlEnd, hasherPostEnc,
             rowsSeen, verify, remain, catAfter>>
bpVars == <<stdinLines, storageOk, lineIdx, bpPc, bpLog, sz>>
rangeVars == <<rOffset, rLength, rOut>>
hsVars == <<hsSize, hsHasher, hsWrites, hsIssued, wPc, sizeResults>>
walkVars == <<walkPc, procPc, filesCh, chClosed, handed, invoked, completed>>
extVars == <<bpVars, rangeVars, hsVars, walkVars>>
vars == <<dbVars, catVars, streamVars, parVars, extVars>>

\* ------------------------------------------------------------ the tables
\* table storage: readable_label is UNIQUE; "b" was registered first, then
\* "aa", then "a"
storage ==
    { [storage_id |-> 1, readable_label |-> <<2>>, type |-> "disk",
       identifier |-> "uuid-1", root_path |-> "/b"],
      [storage_id |-> 2, readable_label |-> <<1, 1>>, type |-> "s3",
       identifier |-> "bucket", root_path |-> "gb"],
      [storage_id |-> 3, readable_label |-> <<1>>, type |-> "gdrive",
       identifier |-> "acct", root_path |-> "root"] }

StorageIds == {s.storage_id : s \in storage}

\* the storages the retrieved blob may be placed on, in every insertion order
PlacementOrders == {<<1>>, <<2>>, <<1, 2>>, <<2, 1>>}

Corruptions == {"none", "range", "padding", "short"}

Ones(n) == [i \in 1 .. n |-> 1]
Zeros(n) == [i \in 1 .. n |-> 0]

FlipAt(s, i) == [j \in 1 .. Len(s) |-> IF j = i THEN 1 - s[j] ELSE s[j]]

\* the content of the entry that precedes the retrieved one in its blob
Neighbour(c, off) == IF Ones(off) = c THEN Zeros(off) ELSE Ones(off)

\* blob byte layout: the entries encrypted at their offsets under the blob's
\* key, then one zero byte of padding encrypted under the padding key
BlobObject(c, alg, off, key) ==
    EncryptBlobEntry(Neighbour(c, off), 0, key)
    \o EncryptBlobEntry(Compress(alg, c), off, key)
    \o EncryptBlobEntry(<<0>>, off + Len(Compress(alg, c)), 3 - key)

\* what a damaged backend holds instead
Stored(obj, off, size, how) ==
    CASE how = "none" -> obj
      [] how = "range" -> IF size > 0 THEN FlipAt(obj, off + 1) ELSE obj
      [] how = "padding" -> FlipAt(obj, Len(obj))
      [] how = "short" -> IF size > 0 THEN Take(obj, off + size - 1) ELSE obj

\* storage.DownloadSection(path, offset, length): bytes [offset, offset+length)
\* of the object; an object that ends earlier fails after its last byte
SectionOf(obj, offset, length) ==
    LET last == IF offset + length < Len(obj) THEN offset + length ELSE Len(obj)
    IN  [data |-> SubSeq(obj, offset + 1, last),
         short |-> Len(obj) < offset + length]

DownloadSection(sid, path, offset, length) ==
    SectionOf(backend[sid][path], offset, length)

\* ------------------------------------------------------- the retrieval query
\* the rows of blob_entries JOIN blobs JOIN blob_storage JOIN storage
\* WHERE blob_entries.hash = h, in the order the placements were inserted
RECURSIVE JoinFrom(_, _)
JoinFrom(h, placements) ==
    IF placements = <<>> THEN <<>>
    ELSE LET p == Head(placements)
             found == {<<e, b, s>> \in blob_entries \X blobs \X storage :
                          /\ e.hash = h
                          /\ b.blob_id = e.blob_id
                          /\ p.blob_id = b.blob_id
                          /\ s.storage_id = p.storage_id}
         IN  (IF found = {} THEN <<>>
              ELSE LET t == CHOOSE x \in found : TRUE
                   IN  <<[blob_id |-> t[1].blob_id,
                          offset |-> t[1].offset,
                          final_size |-> t[1].final_size,
                          compression_alg |-> t[1].compression_alg,
                          encryption_key |-> t[2].encryption_key,
                          path |-> p.path,
                          storage_id |-> t[3].storage_id,
                          type |-> t[3].type,
                          identifier |-> t[3].identifier,
                          root_path |-> t[3].root_path,
                          readable_label |-> t[3].readable_label]>>)
             \o JoinFrom(h, Tail(placements))

\* ORDER BY storage.readable_label: a stable insertion sort
RECURSIVE InsertByLabel(_, _)
InsertByLabel(r, sorted) ==
    IF sorted = <<>> THEN <<r>>
    ELSE IF LabelLess(r.readable_label, Head(sorted).readable_label)
         THEN <<r>> \o sorted
         ELSE <<Head(sorted)>> \o InsertByLabel(r, Tail(sorted))

OrderByLabelWrong(rows) == rows

RECURSIVE OrderByLabel(_)
OrderByLabel(rows) ==
    IF rows = <<>> THEN <<>>
    ELSE InsertByLabel(rows[Len(rows)], OrderByLabel(SubSeq(rows, 1, Len(rows) - 1)))

\* tx.QueryRow(...).Scan(...): the first row of the ordered result, its ten
\* columns copied into locals; <<>> stands for sql.ErrNoRows
QueryRow(h) ==
    LET rows == OrderByLabel(JoinFrom(h, blob_storage))
    IN  IF rows = <<>> THEN <<>>
        ELSE <<[c \in {"blob_id", "offset", "final_size", "compression_alg",
                       "encryption_key", "path", "storage_id", "type",
                       "identifier", "root_path"} |-> Head(rows)[c]]>>

CatRequestWithPadding(r) ==
    [storage_id |-> r.storage_id, path |-> r.path,
     offset |-> r.offset, length |-> r.final_size + 1]

\* storageR.DownloadSection(path, offset, length) of line 80
CatRequest(r) ==
    [storage_id |-> r.storage_id, path |-> r.path,
     offset |-> r.offset, length |-> r.final_size]

CatPipelineWrong(r) ==
    [seek |-> 0, key |-> r.encryption_key, alg |-> r.compression_alg]

\* crypto.DecryptBlobEntry(reader, offset, key), then
\* compression.ByAlgName(compressionAlg).Decompress(decrypted)
CatPipeline(r) ==
    [seek |-> r.offset, key |-> r.encryption_key, alg |-> r.compression_alg]

\* ------------------------------------------------------------ initial state
CatIdle ==
    /\ cPc = "start"
    /\ tx = "none"
    /\ txLog = <<>>
    /\ row = <<>>
    /\ req = <<>>
    /\ pipe = <<>>
    /\ catPos = 0
    /\ catOut = <<>>
    /\ sState = "none"
    /\ sErr = ""
    /\ sClosed = FALSE

StreamIdle ==
    /\ rcLen = 0
    /\ rcEnd = "EOF"
    /\ rcPos = 0
    /\ rcCloses = 0
    /\ frStarted = FALSE
    /\ pipeBuf = <<>>
    /\ pipeW = "open"
    /\ gPc = "none"
    /\ cons = "idle"
    /\ received = <<>>
    /\ strClosed = FALSE
    /\ rcKind = "ReadCloser"
    /\ copyPc = "none"

ParanoiaIdle ==
    /\ pPc = "start"
    /\ pErr = ""
    /\ dlReqs = <<>>
    /\ dlData = <<>>
    /\ dlEnd = ""
    /\ hasherPostEnc = <<>>
    /\ rowsSeen = <<>>
    /\ verify = <<>>
    /\ remain = <<>>
    /\ catAfter = <<>>

\* BlobParanoia has not been called
BlobParanoiaIdle ==
    /\ stdinLines = <<>>
    /\ storageOk = TRUE
    /\ lineIdx = 0
    /\ bpPc = "start"
    /\ bpLog = <<>>
    /\ sz = 0

\* FormatHTTPRange has not been called
RangeIdle ==
    /\ rOffset = 0
    /\ rLength = 0
    /\ rOut = <<>>

\* a HasherSizer nobody writes to
HasherIdle ==
    /\ hsSize = 0
    /\ hsHasher = <<>>
    /\ hsWrites = <<>>
    /\ hsIssued = <<>>
    /\ wPc = "idle"
    /\ sizeResults = <<>>

WalkIdle ==
    /\ walkPc = "walk"
    /\ procPc = "range"
    /\ filesCh = <<>>
    /\ chClosed = FALSE
    /\ handed = <<>>
    /\ invoked = <<>>
    /\ completed = 0

ExtIdle == BlobParanoiaIdle /\ RangeIdle /\ HasherIdle /\ WalkIdle

\* no blob id has been handed to paranoia
NoBlob ==
    /\ blobRow = <<>>
    /\ placement = <<>>

\* the metadata store holds nothing and no backend holds an object
DbEmpty ==
    /\ fileContent = <<>>
    /\ catHash = 0
    /\ hashes = {}
    /\ blob_entries = {}
    /\ blobs = {}
    /\ blob_storage = <<>>
    /\ backend = [sid \in StorageIds |-> [p \in {"p1", "p2"} |-> <<>>]]
    /\ files = {}
    /\ lastExec = <<>>

\* the metadata and the objects the packer and uploader leave behind for one
\* file, with each stored copy possibly damaged; `known` says whether the
\* requested hash was ever backed up
DbInit ==
    \E c \in SeqsUpTo(MaxContent), alg \in Algs, off \in 0 .. MaxOff, key \in Keys,
       order \in PlacementOrders, known \in BOOLEAN :
      \E how \in [{order[i] : i \in 1 .. Len(order)} -> Corruptions] :
        LET size == Len(Compress(alg, c))
            obj == BlobObject(c, alg, off, key)
            other == Neighbour(c, off)
        IN  /\ fileContent = c
            /\ catHash = IF known THEN SHA256(c) ELSE SHA256(Ones(MaxContent + 2))
            /\ hashes = {[hash |-> SHA256(c), size |-> Len(c)]}
                        \cup (IF off > 0
                              THEN {[hash |-> SHA256(other), size |-> Len(other)]}
                              ELSE {})
            /\ blob_entries =
                 {[hash |-> SHA256(c), blob_id |-> "B1", final_size |-> size,
                   offset |-> off, compression_alg |-> alg]}
                 \cup (IF off > 0
                       THEN {[hash |-> SHA256(other), blob_id |-> "B1",
                              final_size |-> off, offset |-> 0,
                              compression_alg |-> ""]}
                       ELSE {})
            /\ blobs = {[blob_id |-> "B1", encryption_key |-> key,
                         padding_key |-> 3 - key, size |-> off + size + 1],
                        [blob_id |-> "B2", encryption_key |-> 3,
                         padding_key |-> 3, size |-> 1]}
            /\ blob_storage =
                 <<[blob_id |-> "B2", storage_id |-> 3, path |-> "p2"]>>
                 \o [i \in 1 .. Len(order) |->
                       [blob_id |-> "B1", storage_id |-> order[i], path |-> "p1"]]
            /\ backend =
                 [sid \in StorageIds |->
                    [p \in {"p1", "p2"} |->
                       IF p = "p1" /\ sid \in DOMAIN how
                       THEN Stored(obj, off, size, how[sid])
                       ELSE IF p = "p2" /\ sid = 3
                       THEN EncryptBlobEntry(<<0>>, 0, 3)
                       ELSE <<>>]]
            /\ files = {}
            /\ lastExec = <<>>

\* ---------------------------------------------------------------- CatEz
\* tx, err := db.DB.Begin(); a failure panics before the defer is registered
CatEzBegin ==
    /\ cPc = "start"
    /\ \/ /\ tx' = "open"
          /\ txLog' = Append(txLog, "Begin")
          /\ cPc' = "begun"
       \/ /\ cPc' = "panicked"
          /\ UNCHANGED <<tx, txLog>>
    /\ UNCHANGED <<row, req, pipe, catPos, catOut, sState, sErr, sClosed>>
    /\ UNCHANGED <<dbVars, streamVars, parVars, extVars>>

\* CatReadCloser, the query: a finished transaction answers sql.ErrTxDone, no
\* row answers sql.ErrNoRows, and either one panics
CatReadCloserQuery ==
    /\ cPc = "begun"
    /\ txLog' = Append(txLog, "QueryRow")
    /\ LET got == IF tx = "open" THEN QueryRow(catHash) ELSE <<>>
       IN  /\ row' = got
           /\ cPc' = IF got = <<>> THEN "panicking" ELSE "queried"
    /\ UNCHANGED <<tx, req, pipe, catPos, catOut, sState, sErr, sClosed>>
    /\ UNCHANGED <<dbVars, streamVars, parVars, extVars>>

\* CatReadCloser, the rest: the request to the backend and the wrapping
CatReadCloserWrap ==
    /\ cPc = "queried"
    /\ req' = <<CatRequest(row[1])>>
    /\ pipe' = <<CatPipeline(row[1])>>
    /\ sState' = "open"
    /\ cPc' = "wrapped"
    /\ UNCHANGED <<tx, txLog, row, catPos, catOut, sErr, sClosed>>
    /\ UNCHANGED <<dbVars, streamVars, parVars, extVars>>

CatEzCommitEarly ==
    /\ cPc = "begun"
    /\ tx = "open"
    /\ tx' = "done"
    /\ txLog' = Append(txLog, "Commit")
    /\ UNCHANGED <<cPc, row, req, pipe, catPos, catOut, sState, sErr, sClosed>>
    /\ UNCHANGED <<dbVars, streamVars, parVars, extVars>>

\* the deferred tx.Commit(): runs when CatEz returns and when it unwinds from
\* a panic; a failed Commit panics
CatEzCommit ==
    /\ cPc \in {"wrapped", "panicking"}
    /\ tx' = "done"
    /\ txLog' = Append(txLog, "Commit")
    /\ \/ cPc' = IF cPc = "wrapped" THEN "returned" ELSE "panicked"
       \/ cPc' = "panicked"
    /\ UNCHANGED <<row, req, pipe, catPos, catOut, sState, sErr, sClosed>>
    /\ UNCHANGED <<dbVars, streamVars, parVars, extVars>>

\* ------------------------------------------------- the returned stream
\* one Read of the stream over section `sec` through pipeline `w`, `pos`
\* bytes of the section consumed so far: the next byte of the section goes
\* through the cipher and the decoder; at the section's end the stream ends
\* or fails
ReadStep(sec, w, pos, out, err) ==
    LET more == pos < Len(sec.data)
        n == IF more THEN pos + 1 ELSE pos
        d == DecodePrefix(w.alg,
                          DecryptBlobEntry(Take(sec.data, n), w.seek, w.key),
                          ~more /\ ~sec.short)
    IN  IF ~more /\ sec.short
        THEN [pos |-> n, state |-> "err", err |-> "Backend", out |-> out]
        ELSE IF d.err
        THEN [pos |-> n, state |-> "err", err |-> "Decompress", out |-> out]
        ELSE [pos |-> n, state |-> IF more THEN "open" ELSE "eof", err |-> err,
              out |-> d.out]

\* the stream read to its end
RECURSIVE ReadAll(_, _, _, _, _)
ReadAll(sec, w, pos, out, err) ==
    LET s == ReadStep(sec, w, pos, out, err)
    IN  IF s.state = "open" THEN ReadAll(sec, w, s.pos, s.out, s.err)
        ELSE [state |-> s.state, err |-> s.err, out |-> s.out]

\* one Read of the caller
CatRead ==
    /\ cPc = "returned"
    /\ sState = "open"
    /\ ~sClosed
    /\ LET q == req[1]
           s == ReadStep(DownloadSection(q.storage_id, q.path, q.offset, q.length),
                         pipe[1], catPos, catOut, sErr)
       IN  /\ catPos' = s.pos
           /\ sState' = s.state
           /\ sErr' = s.err
           /\ catOut' = s.out
    /\ UNCHANGED <<cPc, tx, txLog, row, req, pipe, sClosed>>
    /\ UNCHANGED <<dbVars, streamVars, parVars, extVars>>

\* Close of the returned stream (the decompressor's Close)
CatClose ==
    /\ cPc = "returned"
    /\ ~sClosed
    /\ sClosed' = TRUE
    /\ UNCHANGED <<cPc, tx, txLog, row, req, pipe, catPos, catOut, sState, sErr>>
    /\ UNCHANGED <<dbVars, streamVars, parVars, extVars>>

NextCat ==
    \/ CatEzBegin
    \/ CatReadCloserQuery
    \/ CatReadCloserWrap
    \/ CatEzCommit
    \/ CatRead
    \/ CatClose

InitCat == DbInit /\ CatIdle /\ StreamIdle /\ NoBlob /\ ParanoiaIdle /\ ExtIdle

SpecCat == InitCat /\ [][NextCat]_vars

\* =================================================== ReadCloserToReader
\* MaxStream: the longest backend section of the adapter model
MaxStream == 3

\* the stream CatReadCloser returns sits on ReadCloserToReader(DownloadSection):
\* a backend ReadCloser of any length up to MaxStream, ending in EOF or an error
StreamInit ==
    /\ rcLen \in 0 .. MaxStream
    /\ rcEnd \in {"EOF", "error"}
    /\ rcPos = 0
    /\ rcCloses = 0
    /\ frStarted = FALSE
    /\ pipeBuf = <<>>
    /\ pipeW = "open"
    /\ gPc = "none"
    /\ cons = "idle"
    /\ received = <<>>
    /\ strClosed = FALSE
    /\ rcKind \in {"ReadCloser", "fakeReadCloser"}
    /\ copyPc = "none"

\* fakeReader.Read, entry: the first Read makes the pipe and starts the
\* goroutine; the caller then blocks in pipeR.Read
fakeReaderRead ==
    /\ rcKind = "ReadCloser"
    /\ copyPc \in {"none", "wrapped"}
    /\ cons = "idle"
    /\ ~strClosed
    /\ cons' = "reading"
    /\ frStarted' = TRUE
    /\ gPc' = IF frStarted THEN gPc ELSE "read"
    /\ UNCHANGED <<rcLen, rcEnd, rcPos, rcCloses, pipeBuf, pipeW, received, strClosed>>
    /\ UNCHANGED <<rcKind, copyPc, dbVars, catVars, parVars, extVars>>

\* pipeR.Read returns: some of the bytes of the write in progress, or, with
\* nothing pending and the writer closed, the writer's EOF or error
PipeRead ==
    /\ cons = "reading"
    /\ \/ /\ pipeBuf # <<>>
          /\ \E k \in 1 .. Len(pipeBuf) :
                /\ received' = received \o Take(pipeBuf, k)
                /\ pipeBuf' = Drop(pipeBuf, k)
          /\ cons' = "idle"
       \/ /\ pipeBuf = <<>>
          /\ pipeW # "open"
          /\ cons' = pipeW
          /\ UNCHANGED <<received, pipeBuf>>
    /\ UNCHANGED <<rcLen, rcEnd, rcPos, rcCloses, frStarted, pipeW, gPc, strClosed>>
    /\ UNCHANGED <<rcKind, copyPc, dbVars, catVars, parVars, extVars>>

\* io.CopyBuffer in the goroutine, fr.rc.Read: a chunk of the remaining bytes
\* goes to pipeW.Write, the end of rc ends the copy
CopyRead ==
    /\ gPc = "read"
    /\ \/ /\ rcPos < rcLen
          /\ \E k \in 1 .. rcLen - rcPos :
                /\ pipeBuf' = [i \in 1 .. k |-> rcPos + i]
                /\ rcPos' = rcPos + k
          /\ gPc' = "write"
       \/ /\ rcPos = rcLen
          /\ gPc' = "closeW"
          /\ UNCHANGED <<pipeBuf, rcPos>>
    /\ UNCHANGED <<rcLen, rcEnd, rcCloses, frStarted, pipeW, cons, received, strClosed>>
    /\ UNCHANGED <<rcKind, copyPc, dbVars, catVars, parVars, extVars>>

\* pipeW.Write returns once the reader has taken every byte of the chunk;
\* nothing else wakes it (nobody closes pipeR)
CopyWriteReturn ==
    /\ gPc = "write"
    /\ pipeBuf = <<>>
    /\ gPc' = "read"
    /\ UNCHANGED <<rcLen, rcEnd, rcPos, rcCloses, frStarted, pipeBuf, pipeW, cons,
                   received, strClosed>>
    /\ UNCHANGED <<rcKind, copyPc, dbVars, catVars, parVars, extVars>>

\* pipeW.CloseWithError(err)
PipeCloseWithError ==
    /\ gPc = "closeW"
    /\ pipeW' = rcEnd
    /\ gPc' = "closeRc"
    /\ UNCHANGED <<rcLen, rcEnd, rcPos, rcCloses, frStarted, pipeBuf, cons, received,
                   strClosed>>
    /\ UNCHANGED <<rcKind, copyPc, dbVars, catVars, parVars, extVars>>

\* defer fr.rc.Close()
CopyDeferredClose ==
    /\ gPc = "closeRc"
    /\ rcCloses' = rcCloses + 1
    /\ gPc' = "done"
    /\ UNCHANGED <<rcLen, rcEnd, rcPos, frStarted, pipeBuf, pipeW, cons, received,
                   strClosed>>
    /\ UNCHANGED <<rcKind, copyPc, dbVars, catVars, parVars, extVars>>

\* ReadCloserToReader of a *fakeReadCloser hands back the reader inside it
\* (lines 471-474), and fakeReadCloser.Read is that reader's Read: the
\* consumer reads it with no pipe and no goroutine
InnerRead ==
    /\ rcKind = "fakeReadCloser"
    /\ copyPc \in {"none", "wrapped"}
    /\ cons = "idle"
    /\ ~strClosed
    /\ \/ /\ rcPos < rcLen
          /\ \E k \in 1 .. rcLen - rcPos :
                /\ received' = received \o [i \in 1 .. k |-> rcPos + i]
                /\ rcPos' = rcPos + k
          /\ UNCHANGED cons
       \/ /\ rcPos = rcLen
          /\ cons' = rcEnd
          /\ UNCHANGED <<received, rcPos>>
    /\ UNCHANGED <<rcLen, rcEnd, rcCloses, frStarted, pipeBuf, pipeW, gPc, strClosed,
                   rcKind, copyPc>>
    /\ UNCHANGED <<dbVars, catVars, parVars, extVars>>

CopyBeginAlwaysUnwrap ==
    /\ copyPc = "none"
    /\ cons = "idle"
    /\ ~strClosed
    /\ copyPc' = IF rcKind = "ReadCloser" THEN "direct" ELSE "wrapped"
    /\ UNCHANGED <<rcLen, rcEnd, rcPos, rcCloses, frStarted, pipeBuf, pipeW, gPc, cons,
                   received, strClosed, rcKind>>
    /\ UNCHANGED <<dbVars, catVars, parVars, extVars>>

\* utils.Copy, lines 528-529: ReaderToReadCloser gives fr.rc itself when `in`
\* is a fakeReader whose pipe does not exist yet, and a fakeReadCloser around
\* `in` otherwise (neither a fakeReader nor the reader inside a
\* fakeReadCloser has a Close); its Close is deferred
CopyBegin ==
    /\ copyPc = "none"
    /\ cons = "idle"
    /\ ~strClosed
    /\ copyPc' = IF rcKind = "ReadCloser" /\ ~frStarted THEN "direct" ELSE "wrapped"
    /\ UNCHANGED <<rcLen, rcEnd, rcPos, rcCloses, frStarted, pipeBuf, pipeW, gPc, cons,
                   received, strClosed, rcKind>>
    /\ UNCHANGED <<dbVars, catVars, parVars, extVars>>

\* io.CopyBuffer(out, rc, ...) of line 530 when rc is fr.rc: each chunk read
\* from rc is written to out; the copy ends with rc's EOF or error
CopyDirectRead ==
    /\ copyPc = "direct"
    /\ cons = "idle"
    /\ \/ /\ rcPos < rcLen
          /\ \E k \in 1 .. rcLen - rcPos :
                /\ received' = received \o [i \in 1 .. k |-> rcPos + i]
                /\ rcPos' = rcPos + k
          /\ UNCHANGED cons
       \/ /\ rcPos = rcLen
          /\ cons' = rcEnd
          /\ UNCHANGED <<received, rcPos>>
    /\ UNCHANGED <<rcLen, rcEnd, rcCloses, frStarted, pipeBuf, pipeW, gPc, strClosed,
                   rcKind, copyPc>>
    /\ UNCHANGED <<dbVars, catVars, parVars, extVars>>

\* the end of Copy, lines 529-533: the copy's error makes it panic, and either
\* way the deferred rc.Close() runs, which is fr.rc.Close() after an unwrap
\* and fakeReadCloser's empty Close otherwise
CopyReturn ==
    /\ copyPc \in {"direct", "wrapped"}
    /\ cons \in {"EOF", "error"}
    /\ rcCloses' = IF copyPc = "direct" THEN rcCloses + 1 ELSE rcCloses
    /\ copyPc' = IF cons = "error" THEN "panicked" ELSE "returned"
    /\ UNCHANGED <<rcLen, rcEnd, rcPos, frStarted, pipeBuf, pipeW, gPc, cons, received,
                   strClosed, rcKind>>
    /\ UNCHANGED <<dbVars, catVars, parVars, extVars>>

\* Close of the stream CatReadCloser returned: the decompressor's Close. The
\* decompressor reads from an io.Reader (the cipher reader over the
\* fakeReader), so its Close reaches neither the pipe nor rc
StreamClose ==
    /\ cons \in {"idle", "EOF", "error"}
    /\ ~strClosed
    /\ strClosed' = TRUE
    /\ UNCHANGED <<rcLen, rcEnd, rcPos, rcCloses, frStarted, pipeBuf, pipeW, gPc, cons,
                   received>>
    /\ UNCHANGED <<rcKind, copyPc, dbVars, catVars, parVars, extVars>>

NextStream ==
    \/ fakeReaderRead
    \/ PipeRead
    \/ CopyRead
    \/ CopyWriteReturn
    \/ PipeCloseWithError
    \/ CopyDeferredClose
    \/ InnerRead
    \/ CopyBegin
    \/ CopyDirectRead
    \/ CopyReturn
    \/ StreamClose

InitStream == DbEmpty /\ CatIdle /\ StreamInit /\ NoBlob /\ ParanoiaIdle /\ ExtIdle

SpecStream == InitStream /\ [][NextStream]_vars

\* the goroutine is scheduled whenever it can run
SpecStreamFair == SpecStream /\ WF_vars(CopyRead \/ CopyWriteReturn
                                        \/ PipeCloseWithError \/ CopyDeferredClose)

\* ============================================================= paranoia
\* MaxBlob: the largest blobs.size; the download stream may deliver one byte
\* more. MaxEntries: the most blob_entries rows of the blob
MaxBlob == 2
MaxEntries == 2

\* the blobs row of the blob id (if it exists) and its placement on the
\* selected storage (if there is one)
ParanoiaInit ==
    /\ blobRow \in {<<>>} \cup
         {<<[size |-> n, padding_key |-> k, final_hash |-> SHA256(d)]>> :
            <<n, k, d>> \in {t \in (1 .. MaxBlob) \X Keys \X SeqsUpTo(MaxBlob) :
                               Len(t[3]) = t[1]}}
    /\ placement \in {<<>>, <<"p1">>}
    /\ ParanoiaIdle

\* the rows blob_entries may hold for the blob; the recorded hashes are the
\* digests of the files of at most one byte
EntryRows ==
    [hash : {SHA256(c) : c \in SeqsUpTo(1)},
     encryption_key : Keys,
     final_size : 0 .. MaxBlob,
     offset : 0 .. MaxBlob - 1,
     compression_alg : Algs]

OrderByOffsetOnly(a, b) == a.offset <= b.offset

\* ORDER BY offset, final_size: row a may come before row b
OrderByOffsetSize(a, b) ==
    \/ a.offset < b.offset
    \/ a.offset = b.offset /\ a.final_size <= b.final_size

EntireBlobRequestShort(path, blobSize) ==
    [path |-> path, offset |-> 0, length |-> blobSize - 1]

\* storage.DownloadSection(path, 0, blobSize)
EntireBlobRequest(path, blobSize) ==
    [path |-> path, offset |-> 0, length |-> blobSize]

\* io.TeeReader(outerReader, &hasherPostEnc): what is read is written to the
\* hasher, once and in order
TeeReader(hasher, data) == hasher \o data

MisalignedGapOnly(size, offset) == size < offset

\* hasherPostEnc.Size() != offset
Misaligned(size, offset) == size # offset

WrongSizeIgnored(size, r) == FALSE

\* hasherPostEnc.Size() != offset+entrySize
WrongSize(size, r) == size # r.offset + r.final_size

WrongDataFirstByte(hash, realHash) == hash % 2 # realHash % 2

\* !bytes.Equal(hash, realHash)
WrongData(hash, realHash) == hash # realHash

PaddingPlainFromZero(data, size, paddingKey) == DecryptBlobEntry(data, 0, paddingKey)

\* crypto.DecryptBlobEntry(encReader, hasherPostEnc.Size(), paddingKey)
PaddingPlain(data, size, paddingKey) == DecryptBlobEntry(data, size, paddingKey)

NotAllZerosFirstByte(r) == r # <<>> /\ r[1] # 0

\* !bytes.Equal(remain, make([]byte, len(remain)))
NotAllZeros(r) == r # Zeros(Len(r))

\* hasherPostEnc.Size() != blobSize
BlobSizeMismatch(size, blobSize) == size # blobSize

PostEncMismatchIgnored(hashPostEnc, hasher) == FALSE

\* !bytes.Equal(hashPostEnc, hasherPostEnc.Hash())
PostEncMismatch(hashPostEnc, hasher) == hashPostEnc # SHA256(hasher)

\* a read of at most n bytes from the download stream delivers `data` and
\* leaves the stream's end at `end`: fewer than n bytes only at its end
Delivers(n, data, end) ==
    /\ Len(data) <= n
    /\ Len(dlData) + Len(data) <= MaxBlob + 1
    /\ IF n = 0 THEN end = dlEnd
       ELSE IF dlEnd # "" THEN data = <<>> /\ end = dlEnd
       ELSE IF Len(data) = n THEN end = ""
       ELSE end \in {"EOF", "error"}

Panic(msg) ==
    /\ pPc' = "failed"
    /\ pErr' = msg

\* DownloadEntireBlob: the size of the blob, its path on the storage, and the
\* one request for the whole object
DownloadEntireBlob ==
    /\ pPc = "start"
    /\ IF blobRow = <<>>
       THEN Panic("This blob id does not exist") /\ UNCHANGED dlReqs
       ELSE IF placement = <<>>
       THEN Panic("no path in that storage") /\ UNCHANGED dlReqs
       ELSE /\ dlReqs' = Append(dlReqs, EntireBlobRequest(placement[1], blobRow[1].size))
            /\ pPc' = "downloaded"
            /\ UNCHANGED pErr
    /\ UNCHANGED <<blobRow, placement, dlData, dlEnd, hasherPostEnc, rowsSeen, verify,
                   remain>>
    /\ UNCHANGED <<catAfter, dbVars, catVars, streamVars, extVars>>

\* BlobReaderParanoia, lines 177-197: the blobs row, a fresh hasherPostEnc
\* teed to the download, and the query for the entries
ParanoiaBegin ==
    /\ pPc = "downloaded"
    /\ hasherPostEnc' = <<>>
    /\ pPc' = "rows"
    /\ UNCHANGED <<blobRow, placement, pErr, dlReqs, dlData, dlEnd, rowsSeen, verify,
                   remain>>
    /\ UNCHANGED <<catAfter, dbVars, catVars, streamVars, extVars>>

\* rows.Next() and Scan, lines 198-207: the next row in ORDER BY order (hash
\* is the primary key, so no hash comes twice); no further row leads to the
\* padding
ParanoiaNextRow ==
    /\ pPc = "rows"
    /\ \/ /\ Len(rowsSeen) < MaxEntries
          /\ \E r \in EntryRows :
                /\ \A i \in 1 .. Len(rowsSeen) : rowsSeen[i].hash # r.hash
                /\ rowsSeen # <<>> => OrderByOffsetSize(rowsSeen[Len(rowsSeen)], r)
                /\ rowsSeen' = Append(rowsSeen, r)
          /\ pPc' = "align"
       \/ /\ pPc' = "padding"
          /\ UNCHANGED rowsSeen
    /\ UNCHANGED <<blobRow, placement, pErr, dlReqs, dlData, dlEnd, hasherPostEnc,
                   verify, remain>>
    /\ UNCHANGED <<catAfter, dbVars, catVars, streamVars, extVars>>

\* lines 208-210: the alignment check of the row just scanned
ParanoiaAlignment ==
    /\ pPc = "align"
    /\ IF Misaligned(Len(hasherPostEnc), rowsSeen[Len(rowsSeen)].offset)
       THEN Panic("got misaligned somehow. gap between entries??")
       ELSE pPc' = "drain" /\ UNCHANGED pErr
    /\ UNCHANGED <<blobRow, placement, dlReqs, dlData, dlEnd, hasherPostEnc, rowsSeen,
                   verify, remain>>
    /\ UNCHANGED <<catAfter, dbVars, catVars, streamVars, extVars>>

\* line 213: utils.Copy drains Decompress(LimitReader(DecryptBlobEntry(encReader,
\* offset, key), entrySize)) into a fresh verify hasher; Copy panics on a
\* decoder error and on a read error of the download
ParanoiaDrainEntry ==
    /\ pPc = "drain"
    /\ LET r == rowsSeen[Len(rowsSeen)]
       IN  \E data \in SeqsUpTo(r.final_size), end \in {"", "EOF", "error"} :
             /\ Delivers(r.final_size, data, end)
             /\ dlData' = dlData \o data
             /\ dlEnd' = end
             /\ hasherPostEnc' = TeeReader(hasherPostEnc, data)
             /\ LET plain == DecryptBlobEntry(data, r.offset, r.encryption_key)
                    early == DecodePrefix(r.compression_alg, plain, FALSE)
                    whole == DecodePrefix(r.compression_alg, plain, TRUE)
                IN  IF early.err
                    THEN Panic("decompress error") /\ verify' = <<>>
                    ELSE IF end = "error"
                    THEN Panic("read error") /\ verify' = early.out
                    ELSE IF whole.err
                    THEN Panic("decompress error") /\ verify' = <<>>
                    ELSE /\ verify' = whole.out
                         /\ pPc' = "checks"
                         /\ UNCHANGED pErr
    /\ UNCHANGED <<blobRow, placement, dlReqs, rowsSeen, remain>>
    /\ UNCHANGED <<catAfter, dbVars, catVars, streamVars, extVars>>

ParanoiaEntryChecksLogOnly ==
    /\ pPc = "checks"
    /\ pPc' = "rows"
    /\ LET r == rowsSeen[Len(rowsSeen)]
       IN  IF WrongSize(Len(hasherPostEnc), r)
           THEN pErr' = "entry was wrong size"
           ELSE IF WrongData(r.hash, SHA256(verify))
           THEN pErr' = "decompressed to wrong data!"
           ELSE UNCHANGED pErr
    /\ UNCHANGED <<blobRow, placement, dlReqs, dlData, dlEnd, hasherPostEnc, rowsSeen,
                   verify, remain>>
    /\ UNCHANGED <<catAfter, dbVars, catVars, streamVars, extVars>>

ParanoiaEntryChecksHashFirst ==
    /\ pPc = "checks"
    /\ LET r == rowsSeen[Len(rowsSeen)]
       IN  IF WrongData(r.hash, SHA256(verify))
           THEN Panic("decompressed to wrong data!")
           ELSE IF WrongSize(Len(hasherPostEnc), r)
           THEN Panic("entry was wrong size")
           ELSE pPc' = "rows" /\ UNCHANGED pErr
    /\ UNCHANGED <<blobRow, placement, dlReqs, dlData, dlEnd, hasherPostEnc, rowsSeen,
                   verify, remain>>
    /\ UNCHANGED <<catAfter, dbVars, catVars, streamVars, extVars>>

\* lines 214-222: the entry's end position, then its digest
ParanoiaEntryChecks ==
    /\ pPc = "checks"
    /\ LET r == rowsSeen[Len(rowsSeen)]
       IN  IF WrongSize(Len(hasherPostEnc), r)
           THEN Panic("entry was wrong size")
           ELSE IF WrongData(r.hash, SHA256(verify))
           THEN Panic("decompressed to wrong data!")
           ELSE pPc' = "rows" /\ UNCHANGED pErr
    /\ UNCHANGED <<blobRow, placement, dlReqs, dlData, dlEnd, hasherPostEnc, rowsSeen,
                   verify, remain>>
    /\ UNCHANGED <<catAfter, dbVars, catVars, streamVars, extVars>>

\* lines 228-234: ioutil.ReadAll of the rest of the download, decrypted under
\* padding_key from the position reached; every byte must be zero
ParanoiaPadding ==
    /\ pPc = "padding"
    /\ \E data \in SeqsUpTo(MaxBlob + 1 - Len(dlData)), end \in {"EOF", "error"} :
          /\ Delivers(MaxBlob + 2, data, end)
          /\ dlData' = dlData \o data
          /\ dlEnd' = end
          /\ hasherPostEnc' = TeeReader(hasherPostEnc, data)
          /\ LET plain == PaddingPlain(data, Len(hasherPostEnc), blobRow[1].padding_key)
             IN  IF end = "error"
                 THEN Panic("padding read error") /\ UNCHANGED remain
                 ELSE /\ remain' = plain
                      /\ IF NotAllZeros(plain)
                         THEN Panic("end padding was not all zeros!")
                         ELSE pPc' = "blobchecks" /\ UNCHANGED pErr
    /\ UNCHANGED <<blobRow, placement, dlReqs, rowsSeen, verify>>
    /\ UNCHANGED <<catAfter, dbVars, catVars, streamVars, extVars>>

\* lines 235-243: the total size, then the post-encryption digest
ParanoiaBlobChecks ==
    /\ pPc = "blobchecks"
    /\ IF BlobSizeMismatch(Len(hasherPostEnc), blobRow[1].size)
       THEN Panic("sanity check: size")
       ELSE IF PostEncMismatch(blobRow[1].final_hash, hasherPostEnc)
       THEN Panic("sanity check: hash")
       ELSE pPc' = "verified" /\ UNCHANGED pErr
    /\ UNCHANGED <<blobRow, placement, dlReqs, dlData, dlEnd, hasherPostEnc, rowsSeen,
                   verify, remain>>
    /\ UNCHANGED <<catAfter, dbVars, catVars, streamVars, extVars>>

\* Cat of the hash of an entry of the blob just verified, served from the
\* storage paranoia ran on: CatReadCloser's query returns the entry's offset,
\* final_size and compression_alg and the encryption_key column of table
\* blobs (lines 52-70), a column no statement of BlobReaderParanoia reads;
\* the stream is read to its end. The object on the storage is what paranoia
\* downloaded.
CatVerifiedEntry ==
    /\ pPc = "verified"
    /\ catAfter = <<>>
    /\ \E i \in 1 .. Len(rowsSeen), blobKey \in Keys :
          LET e == rowsSeen[i]
              r == [blob_id |-> "B1", offset |-> e.offset,
                    final_size |-> e.final_size,
                    compression_alg |-> e.compression_alg,
                    encryption_key |-> blobKey, path |-> placement[1],
                    storage_id |-> 1]
              q == CatRequest(r)
              w == CatPipeline(r)
          IN  catAfter' =
                <<[entry |-> e, request |-> q, pipe |-> w,
                   result |-> ReadAll(SectionOf(dlData, q.offset, q.length),
                                      w, 0, <<>>, "")]>>
    /\ UNCHANGED <<blobRow, placement, pPc, pErr, dlReqs, dlData, dlEnd, hasherPostEnc,
                   rowsSeen, verify, remain>>
    /\ UNCHANGED <<dbVars, catVars, streamVars, extVars>>

NextParanoia ==
    \/ DownloadEntireBlob
    \/ ParanoiaBegin
    \/ ParanoiaNextRow
    \/ ParanoiaAlignment
    \/ ParanoiaDrainEntry
    \/ ParanoiaEntryChecks
    \/ ParanoiaPadding
    \/ ParanoiaBlobChecks
    \/ CatVerifiedEntry

InitParanoia == DbEmpty /\ CatIdle /\ StreamIdle /\ ParanoiaInit /\ ExtIdle

SpecParanoia == InitParanoia /\ [][NextParanoia]_vars

\* ========================================================= BlobParanoia
\* MaxLines: the most lines standard input holds
MaxLines == 3

\* if len(line) != 64
LineLength == 64

Rep(c, n) == [i \in 1 .. n |-> c]

\* the lines standard input may hold, as strings of characters: the empty
\* line, hex blob ids in lower and upper case, a line one short, a line one
\* long, a line of the right length with a character that is no hex digit,
\* and a line of one blank
StdinLineSet ==
    { <<>>,
      Rep("a", LineLength),
      Rep("A", LineLength),
      Rep("3", LineLength),
      Rep("a", LineLength - 1),
      Rep("a", LineLength + 1),
      Rep("a", LineLength - 1) \o <<"g">>,
      <<" ">> }

LowerHex == <<"0", "1", "2", "3", "4", "5", "6", "7", "8", "9",
              "a", "b", "c", "d", "e", "f">>
UpperHex == <<"0", "1", "2", "3", "4", "5", "6", "7", "8", "9",
              "A", "B", "C", "D", "E", "F">>

\* encoding/hex fromHexChar: the value of a hex digit, -1 for any other byte
HexVal(c) ==
    IF \E i \in 1 .. 16 : LowerHex[i] = c
    THEN (CHOOSE i \in 1 .. 16 : LowerHex[i] = c) - 1
    ELSE IF \E i \in 1 .. 16 : UpperHex[i] = c
    THEN (CHOOSE i \in 1 .. 16 : UpperHex[i] = c) - 1
    ELSE -1

\* hex.DecodeString(line): two digits make a byte; an odd length or a byte
\* that is no hex digit is an error
DecodeString(line) ==
    IF Len(line) % 2 # 0 \/ \E i \in 1 .. Len(line) : HexVal(line[i]) < 0
    THEN [err |-> TRUE, bytes |-> <<>>]
    ELSE [err |-> FALSE,
          bytes |-> [i \in 1 .. Len(line) \div 2 |->
                        16 * HexVal(line[2 * i - 1]) + HexVal(line[2 * i])]]

MalformedLengthOnly(line) == Len(line) # LineLength

\* lines 149-155: the two panics of a line that is no blob id
Malformed(line) ==
    \/ Len(line) # LineLength
    \/ DecodeString(line).err

BlobParanoiaInit ==
    /\ stdinLines \in UNION {[1 .. n -> StdinLineSet] : n \in 0 .. MaxLines}
    /\ storageOk \in BOOLEAN
    /\ lineIdx = 0
    /\ bpPc = "start"
    /\ bpLog = <<>>
    /\ sz = 0

\* lines 133-143: StorageSelect, ioutil.ReadAll(os.Stdin) and strings.Split;
\* no such storage returns, a read error of stdin panics
BlobParanoiaSelect ==
    /\ bpPc = "start"
    /\ \/ bpPc' = IF storageOk THEN "loop" ELSE "returned"
       \/ storageOk /\ bpPc' = "panicked"
    /\ UNCHANGED <<stdinLines, storageOk, lineIdx, bpLog, sz>>
    /\ UNCHANGED <<dbVars, catVars, streamVars, parVars, rangeVars, hsVars, walkVars>>

\* lines 144-155: the next line of the loop is examined
BlobParanoiaLine ==
    /\ bpPc = "loop"
    /\ lineIdx < Len(stdinLines)
    /\ lineIdx' = lineIdx + 1
    /\ LET line == stdinLines[lineIdx + 1]
       IN  IF line = <<>>
           THEN /\ bpLog' = Append(bpLog, [line |-> lineIdx + 1, what |-> "skip"])
                /\ UNCHANGED bpPc
           ELSE IF Malformed(line)
           THEN /\ bpLog' = Append(bpLog, [line |-> lineIdx + 1, what |-> "malformed"])
                /\ bpPc' = "panicked"
           ELSE /\ bpLog' = Append(bpLog, [line |-> lineIdx + 1, what |-> "download",
                                           blobID |-> DecodeString(line).bytes])
                /\ bpPc' = "running"
    /\ UNCHANGED <<stdinLines, storageOk, sz>>
    /\ UNCHANGED <<dbVars, catVars, streamVars, parVars, rangeVars, hsVars, walkVars>>

\* line 156: BlobReaderParanoia(DownloadEntireBlob(blobID, storage), ...)
\* returns the size of the blob it verified, or panics
BlobParanoiaRun ==
    /\ bpPc = "running"
    /\ \/ \E blobSize \in 1 .. MaxBlob :
             /\ sz' = sz + blobSize
             /\ bpLog' = Append(bpLog, [line |-> lineIdx, what |-> "verified"])
             /\ bpPc' = "loop"
       \/ /\ bpLog' = Append(bpLog, [line |-> lineIdx, what |-> "failed"])
          /\ bpPc' = "panicked"
          /\ UNCHANGED sz
    /\ UNCHANGED <<stdinLines, storageOk, lineIdx>>
    /\ UNCHANGED <<dbVars, catVars, streamVars, parVars, rangeVars, hsVars, walkVars>>

\* the loop ends after the last line
BlobParanoiaReturn ==
    /\ bpPc = "loop"
    /\ lineIdx = Len(stdinLines)
    /\ bpPc' = "returned"
    /\ UNCHANGED <<stdinLines, storageOk, lineIdx, bpLog, sz>>
    /\ UNCHANGED <<dbVars, catVars, streamVars, parVars, rangeVars, hsVars, walkVars>>

NextBlobParanoia ==
    \/ BlobParanoiaSelect
    \/ BlobParanoiaLine
    \/ BlobParanoiaRun
    \/ BlobParanoiaReturn

InitBlobParanoia ==
    DbEmpty /\ CatIdle /\ StreamIdle /\ NoBlob /\ ParanoiaIdle
    /\ BlobParanoiaInit /\ RangeIdle /\ HasherIdle /\ WalkIdle

SpecBlobParanoia == InitBlobParanoia /\ [][NextBlobParanoia]_vars

\* ============================================================ the schema
\* the tables of createTables under inserts, updates and deletes; a statement
\* a constraint rejects changes nothing. An optional column holds <<>> for
\* NULL and <<v>> for the value v.
\* MaxTime: the largest files.start; files.end goes one further
MaxTime == 2

HashIds == {SHA256(<<>>), SHA256(<<0>>)}

BlobIds == {"B1", "B2"}

\* files.path: "/a", "/b", and "/" (one character long)
Paths == {<<"/", "a">>, <<"/", "b">>, <<"/">>}

FileRows ==
    [path : Paths, hash : HashIds, start : 0 .. MaxTime,
     end : {<<>>} \cup {<<e>> : e \in 1 .. MaxTime + 1}, fs_modified : {1}]

\* the CHECKs of files (lines 49-53)
FilesCheck(r) ==
    /\ Len(r.path) > 1
    /\ r.start > 0
    /\ (IF r.end = <<>> THEN TRUE ELSE r.end[1] > r.start)
    /\ r.fs_modified > 0

\* UNIQUE(path, start)
FilesUniquePathStart(r, t) ==
    \A b \in t : ~(b.path = r.path /\ b.start = r.start)

\* CREATE UNIQUE INDEX files_by_path_and_end ON files(path, end)
\* WHERE end IS NOT NULL
files_by_path_and_end(r, t) ==
    r.end # <<>> => \A b \in t : ~(b.path = r.path /\ b.end = r.end)

files_by_path_curr_none(r, t) == TRUE

\* CREATE UNIQUE INDEX files_by_path_curr ON files(path) WHERE end IS NULL
files_by_path_curr(r, t) ==
    r.end = <<>> => \A b \in t : ~(b.path = r.path /\ b.end = <<>>)

\* FOREIGN KEY(hash) REFERENCES hashes(hash)
ReferencesHashes(r) == \E h \in hashes : h.hash = r.hash

\* the table t accepts the row r of files
FilesAccepts(r, t) ==
    /\ FilesCheck(r)
    /\ FilesUniquePathStart(r, t)
    /\ files_by_path_and_end(r, t)
    /\ files_by_path_curr(r, t)
    /\ ReferencesHashes(r)

\* INSERT INTO hashes: hash is the primary key, CHECK(size >= 0)
InsertHashes ==
    /\ \E h \in HashIds, n \in -1 .. 0 :
          /\ n >= 0
          /\ \A b \in hashes : b.hash # h
          /\ hashes' = hashes \cup {[hash |-> h, size |-> n]}
    /\ lastExec' = <<>>
    /\ UNCHANGED <<fileContent, catHash, blob_entries, blobs, blob_storage, backend, files>>
    /\ UNCHANGED <<catVars, streamVars, parVars, extVars>>

\* INSERT INTO files
InsertFiles(r) ==
    /\ FilesAccepts(r, files)
    /\ files' = files \cup {r}
    /\ lastExec' = <<>>
    /\ UNCHANGED <<fileContent, catHash, hashes, blob_entries, blobs, blob_storage,
                   backend>>
    /\ UNCHANGED <<catVars, streamVars, parVars, extVars>>

\* UPDATE files SET ... : the row old becomes the row new
UpdateFiles(old, new) ==
    /\ old \in files
    /\ new # old
    /\ FilesAccepts(new, files \ {old})
    /\ files' = (files \ {old}) \cup {new}
    /\ lastExec' = <<>>
    /\ UNCHANGED <<fileContent, catHash, hashes, blob_entries, blobs, blob_storage,
                   backend>>
    /\ UNCHANGED <<catVars, streamVars, parVars, extVars>>

NextFiles ==
    \/ InsertHashes
    \/ \E r \in FileRows : InsertFiles(r)
    \/ \E old \in files, new \in FileRows : UpdateFiles(old, new)

InitFiles ==
    DbEmpty /\ CatIdle /\ StreamIdle /\ NoBlob /\ ParanoiaIdle /\ ExtIdle

SpecFiles == InitFiles /\ [][NextFiles]_vars

\* ------------------------------------------------ blobs and what they own
\* MaxPlacements: the most rows of blob_storage
MaxPlacements == 2

\* the db package opens the database with foreign keys enforced
ForeignKeysOn == TRUE

blob_entries_on_delete == "CASCADE"

blob_storage_on_delete_cascade == "CASCADE"

\* blob_storage: FOREIGN KEY(blob_id) REFERENCES blobs(blob_id) ... ON DELETE
blob_storage_on_delete == "RESTRICT"

\* the one files row the blob model inserts for a hash
FileRowOf(h) ==
    [path |-> <<"/", "a">>, hash |-> h, start |-> 1, end |-> <<>>, fs_modified |-> 1]

\* INSERT INTO blobs: blob_id is the primary key, UNIQUE(encryption_key),
\* CHECK(size > 0)
InsertBlobs ==
    /\ \E b \in BlobIds, k \in Keys, n \in 0 .. 1 :
          /\ n > 0
          /\ \A x \in blobs : x.blob_id # b /\ x.encryption_key # k
          /\ blobs' = blobs \cup {[blob_id |-> b, encryption_key |-> k,
                                   padding_key |-> 3 - k, size |-> n]}
    /\ lastExec' = <<>>
    /\ UNCHANGED <<fileContent, catHash, hashes, blob_entries, blob_storage, backend,
                   files>>
    /\ UNCHANGED <<catVars, streamVars, parVars, extVars>>

\* INSERT INTO blob_entries: hash is the primary key and references hashes,
\* blob_id references blobs, CHECK(final_size >= 0), CHECK(offset >= 0)
InsertBlobEntries ==
    /\ \E h \in HashIds, b \in BlobIds, n \in -1 .. 0, off \in -1 .. 0 :
          /\ n >= 0
          /\ off >= 0
          /\ \A x \in blob_entries : x.hash # h
          /\ ForeignKeysOn => /\ \E x \in hashes : x.hash = h
                              /\ \E x \in blobs : x.blob_id = b
          /\ blob_entries' = blob_entries \cup
                 {[hash |-> h, blob_id |-> b, final_size |-> n, offset |-> off,
                   compression_alg |-> ""]}
    /\ lastExec' = <<>>
    /\ UNCHANGED <<fileContent, catHash, hashes, blobs, blob_storage, backend, files>>
    /\ UNCHANGED <<catVars, streamVars, parVars, extVars>>

\* INSERT INTO blob_storage: UNIQUE(storage_id, full_path), blob_id references
\* blobs, storage_id references storage
InsertBlobStorage ==
    /\ Len(blob_storage) < MaxPlacements
    /\ \E b \in BlobIds, sid \in {1, 4}, path \in {"p1", "p2"} :
          /\ \A i \in 1 .. Len(blob_storage) :
                ~(blob_storage[i].storage_id = sid /\ blob_storage[i].path = path)
          /\ ForeignKeysOn => /\ \E x \in blobs : x.blob_id = b
                              /\ sid \in StorageIds
          /\ blob_storage' = Append(blob_storage,
                 [blob_id |-> b, storage_id |-> sid, path |-> path])
    /\ lastExec' = <<>>
    /\ UNCHANGED <<fileContent, catHash, hashes, blob_entries, blobs, backend, files>>
    /\ UNCHANGED <<catVars, streamVars, parVars, extVars>>

\* the rows of the sequence t that do not reference blob b
RECURSIVE WithoutBlob(_, _)
WithoutBlob(t, b) ==
    IF t = <<>> THEN <<>>
    ELSE IF Head(t).blob_id = b THEN WithoutBlob(Tail(t), b)
    ELSE <<Head(t)>> \o WithoutBlob(Tail(t), b)

\* DELETE FROM blobs WHERE blob_id = b, for a row that exists: a child table
\* with ON DELETE RESTRICT that references the row makes the statement fail, a
\* child table with ON DELETE CASCADE loses the rows that reference it
DeleteBlobs ==
    \E b \in {x.blob_id : x \in blobs} :
       LET entries == {e \in blob_entries : e.blob_id = b}
           placed == \E i \in 1 .. Len(blob_storage) : blob_storage[i].blob_id = b
           restricted == /\ ForeignKeysOn
                         /\ \/ blob_entries_on_delete = "RESTRICT" /\ entries # {}
                            \/ blob_storage_on_delete = "RESTRICT" /\ placed
           before == [hashes |-> hashes, files |-> files, blobs |-> blobs,
                      blob_entries |-> blob_entries, blob_storage |-> blob_storage]
       IN  /\ lastExec' = <<[stmt |-> "DELETE FROM blobs", blob_id |-> b,
                             err |-> restricted, before |-> before]>>
           /\ IF restricted
              THEN UNCHANGED <<blobs, blob_entries, blob_storage>>
              ELSE /\ blobs' = {x \in blobs : x.blob_id # b}
                   /\ blob_entries' =
                        IF ForeignKeysOn /\ blob_entries_on_delete = "CASCADE"
                        THEN blob_entries \ entries ELSE blob_entries
                   /\ blob_storage' =
                        IF ForeignKeysOn /\ blob_storage_on_delete = "CASCADE"
                        THEN WithoutBlob(blob_storage, b) ELSE blob_storage
           /\ UNCHANGED <<fileContent, catHash, hashes, backend, files>>
           /\ UNCHANGED <<catVars, streamVars, parVars, extVars>>

NextBlobs ==
    \/ InsertHashes
    \/ \E h \in HashIds : InsertFiles(FileRowOf(h))
    \/ InsertBlobs
    \/ InsertBlobEntries
    \/ InsertBlobStorage
    \/ DeleteBlobs

InitBlobs ==
    DbEmpty /\ CatIdle /\ StreamIdle /\ NoBlob /\ ParanoiaIdle /\ ExtIdle

SpecBlobs == InitBlobs /\ [][NextBlobs]_vars

\* ====================================================== FormatHTTPRange
\* MaxRangeOffset, MaxRangeLength: the largest offset and length formatted
MaxRangeOffset == 12
MaxRangeLength == 4

\* strconv.FormatInt(n, 10): the decimal digits, most significant first, with
\* a leading "-" for a negative number
RECURSIVE UDigits(_)
UDigits(n) ==
    IF n < 10 THEN <<LowerHex[n + 1]>>
    ELSE UDigits(n \div 10) \o <<LowerHex[(n % 10) + 1]>>

FormatInt(n) == IF n < 0 THEN <<"-">> \o UDigits(-n) ELSE UDigits(n)

FormatHTTPRangeExclusive(offset, length) ==
    <<"b", "y", "t", "e", "s", "=">> \o FormatInt(offset) \o <<"-">>
        \o FormatInt(offset + length)

\* "bytes=" + FormatInt(offset) + "-" + FormatInt(offset+length-1)
FormatHTTPRange(offset, length) ==
    <<"b", "y", "t", "e", "s", "=">> \o FormatInt(offset) \o <<"-">>
        \o FormatInt(offset + length - 1)

RangeInit ==
    /\ rOffset \in 0 .. MaxRangeOffset
    /\ rLength \in 0 .. MaxRangeLength
    /\ rOut = <<>>

\* a backend formats the range of the section it was asked for
FormatRange ==
    /\ rOut = <<>>
    /\ rOut' = <<FormatHTTPRange(rOffset, rLength)>>
    /\ UNCHANGED <<rOffset, rLength>>
    /\ UNCHANGED <<dbVars, catVars, streamVars, parVars, bpVars, hsVars, walkVars>>

NextRange == FormatRange

InitRange ==
    DbEmpty /\ CatIdle /\ StreamIdle /\ NoBlob /\ ParanoiaIdle
    /\ BlobParanoiaIdle /\ RangeInit /\ HasherIdle /\ WalkIdle

SpecRange == InitRange /\ [][NextRange]_vars

\* ========================================================== HasherSizer
\* MaxWrites: the most Write calls; MaxChunk: the longest p of a Write;
\* MaxSizeCalls: the most Size() calls
MaxWrites == 2
MaxChunk == 1
MaxSizeCalls == 2

AddInt64Calls(addr, delta) == addr + 1

\* atomic.AddInt64(&hs.size, int64(n)): one indivisible read-modify-write
AddInt64(addr, delta) == addr + delta

\* hs.hasher.Write(p)
HasherWrite(hasher, p) == hasher \o p

\* hs.hasher.Sum(nil)
Hash(hasher) == SHA256(hasher)

HasherInit ==
    /\ hsSize = 0
    /\ hsHasher = <<>>
    /\ hsWrites \in UNION {[1 .. n -> SeqsUpTo(MaxChunk)] : n \in 0 .. MaxWrites}
    /\ hsIssued = <<>>
    /\ wPc = "idle"
    /\ sizeResults = <<>>

\* the writer calls Write(p) with the next p: n := len(p)
HasherSizerWriteCall ==
    /\ wPc = "idle"
    /\ hsWrites # <<>>
    /\ hsIssued' = Append(hsIssued, Head(hsWrites))
    /\ hsWrites' = Tail(hsWrites)
    /\ wPc' = "called"
    /\ UNCHANGED <<hsSize, hsHasher, sizeResults>>
    /\ UNCHANGED <<dbVars, catVars, streamVars, parVars, bpVars, rangeVars, walkVars>>

\* line 436
HasherSizerWriteAdd ==
    /\ wPc = "called"
    /\ hsSize' = AddInt64(hsSize, Len(hsIssued[Len(hsIssued)]))
    /\ wPc' = "added"
    /\ UNCHANGED <<hsHasher, hsWrites, hsIssued, sizeResults>>
    /\ UNCHANGED <<dbVars, catVars, streamVars, parVars, bpVars, rangeVars, walkVars>>

\* line 437: hs.hasher.Write(p), and Write returns
HasherSizerWriteHasher ==
    /\ wPc = "added"
    /\ hsHasher' = HasherWrite(hsHasher, hsIssued[Len(hsIssued)])
    /\ wPc' = "idle"
    /\ UNCHANGED <<hsSize, hsWrites, hsIssued, sizeResults>>
    /\ UNCHANGED <<dbVars, catVars, streamVars, parVars, bpVars, rangeVars, walkVars>>

\* Size() of any caller: atomic.LoadInt64(&hs.size); the result is kept with
\* the number of Write calls issued by then
HasherSizerSize ==
    /\ Len(sizeResults) < MaxSizeCalls
    /\ sizeResults' = Append(sizeResults, [size |-> hsSize, issued |-> Len(hsIssued)])
    /\ UNCHANGED <<hsSize, hsHasher, hsWrites, hsIssued, wPc>>
    /\ UNCHANGED <<dbVars, catVars, streamVars, parVars, bpVars, rangeVars, walkVars>>

NextHasher ==
    \/ HasherSizerWriteCall
    \/ HasherSizerWriteAdd
    \/ HasherSizerWriteHasher
    \/ HasherSizerSize

InitHasher ==
    DbEmpty /\ CatIdle /\ StreamIdle /\ NoBlob /\ ParanoiaIdle
    /\ BlobParanoiaIdle /\ RangeIdle /\ HasherInit /\ WalkIdle

SpecHasher == InitHasher /\ [][NextHasher]_vars

\* ============================================================ WalkFiles
\* MaxFiles: the most files the walker visits
MaxFiles == 34

\* make(chan pathAndInfo, 32)
ChanCap == 32

\* an unrecovered panic of the callback's goroutine ends the program
ProgramAlive == procPc # "panicked"

\* walkFiles, lines 396-406: the traversal comes to another file it keeps
walkFilesEntry ==
    /\ ProgramAlive
    /\ walkPc = "walk"
    /\ Len(handed) < MaxFiles
    /\ walkPc' = "visit"
    /\ UNCHANGED <<procPc, filesCh, chClosed, handed, invoked, completed>>
    /\ UNCHANGED <<dbVars, catVars, streamVars, parVars, bpVars, rangeVars, hsVars>>

\* walkFiles returns to WalkFiles: nothing is left to traverse
walkFilesReturn ==
    /\ ProgramAlive
    /\ walkPc = "walk"
    /\ walkPc' = "close"
    /\ UNCHANGED <<procPc, filesCh, chClosed, handed, invoked, completed>>
    /\ UNCHANGED <<dbVars, catVars, streamVars, parVars, bpVars, rangeVars, hsVars>>

\* visitFile, lines 310-314: entry.Info() failed and the walker panics (so
\* does ReadDir's failure in walkFiles); WalkFiles has no defer
visitFilePanic ==
    /\ ProgramAlive
    /\ walkPc = "visit"
    /\ walkPc' = "panicked"
    /\ UNCHANGED <<procPc, filesCh, chClosed, handed, invoked, completed>>
    /\ UNCHANGED <<dbVars, catVars, streamVars, parVars, bpVars, rangeVars, hsVars>>

\* visitFile, line 315: filesCh <- pathAndInfo{path, info}, which waits for
\* room in the buffer
visitFile ==
    /\ ProgramAlive
    /\ walkPc = "visit"
    /\ Len(filesCh) < ChanCap
    /\ filesCh' = Append(filesCh, Len(handed) + 1)
    /\ handed' = Append(handed, Len(handed) + 1)
    /\ walkPc' = "walk"
    /\ UNCHANGED <<procPc, chClosed, invoked, completed>>
    /\ UNCHANGED <<dbVars, catVars, streamVars, parVars, bpVars, rangeVars, hsVars>>

\* line 424: close(filesCh)
WalkFilesClose ==
    /\ ProgramAlive
    /\ walkPc = "close"
    /\ chClosed' = TRUE
    /\ walkPc' = "waitdone"
    /\ UNCHANGED <<procPc, filesCh, handed, invoked, completed>>
    /\ UNCHANGED <<dbVars, catVars, streamVars, parVars, bpVars, rangeVars, hsVars>>

WalkFilesDoneNoWait ==
    /\ walkPc = "waitdone"
    /\ walkPc' = "returned"
    /\ procPc' = IF procPc = "signal" THEN "exited" ELSE procPc
    /\ UNCHANGED <<filesCh, chClosed, handed, invoked, completed>>
    /\ UNCHANGED <<dbVars, catVars, streamVars, parVars, bpVars, rangeVars, hsVars>>

\* lines 419 and 425: done is unbuffered, so done <- struct{}{} in the
\* goroutine and <-done in WalkFiles complete together; WalkFiles returns
\* and the goroutine ends
WalkFilesDone ==
    /\ walkPc = "waitdone"
    /\ procPc = "signal"
    /\ walkPc' = "returned"
    /\ procPc' = "exited"
    /\ UNCHANGED <<filesCh, chClosed, handed, invoked, completed>>
    /\ UNCHANGED <<dbVars, catVars, streamVars, parVars, bpVars, rangeVars, hsVars>>

\* lines 415-416: range receives the oldest buffered file and fn is called
\* with it
ProcessorReceive ==
    /\ procPc = "range"
    /\ filesCh # <<>>
    /\ invoked' = Append(invoked, Head(filesCh))
    /\ filesCh' = Tail(filesCh)
    /\ procPc' = "fn"
    /\ UNCHANGED <<walkPc, chClosed, handed, completed>>
    /\ UNCHANGED <<dbVars, catVars, streamVars, parVars, bpVars, rangeVars, hsVars>>

\* line 416: fn returns
CallbackReturn ==
    /\ procPc = "fn"
    /\ completed' = completed + 1
    /\ procPc' = "range"
    /\ UNCHANGED <<walkPc, filesCh, chClosed, handed, invoked>>
    /\ UNCHANGED <<dbVars, catVars, streamVars, parVars, bpVars, rangeVars, hsVars>>

\* line 416: fn panics
CallbackPanic ==
    /\ procPc = "fn"
    /\ procPc' = "panicked"
    /\ UNCHANGED <<walkPc, filesCh, chClosed, handed, invoked, completed>>
    /\ UNCHANGED <<dbVars, catVars, streamVars, parVars, bpVars, rangeVars, hsVars>>

\* line 415: the range ends when filesCh is closed and empty
ProcessorRangeEnd ==
    /\ procPc = "range"
    /\ filesCh = <<>>
    /\ chClosed
    /\ procPc' = "signal"
    /\ UNCHANGED <<walkPc, filesCh, chClosed, handed, invoked, completed>>
    /\ UNCHANGED <<dbVars, catVars, streamVars, parVars, bpVars, rangeVars, hsVars>>

NextWalk ==
    \/ walkFilesEntry
    \/ walkFilesReturn
    \/ visitFilePanic
    \/ visitFile
    \/ WalkFilesClose
    \/ WalkFilesDone
    \/ ProcessorReceive
    \/ CallbackReturn
    \/ CallbackPanic
    \/ ProcessorRangeEnd

InitWalk ==
    DbEmpty /\ CatIdle /\ StreamIdle /\ NoBlob /\ ParanoiaIdle
    /\ BlobParanoiaIdle /\ RangeIdle /\ HasherIdle /\ WalkIdle

SpecWalk == InitWalk /\ [][NextWalk]_vars

\* a goroutine that can take a step that is not a panic takes one: the
\* walker, and the processor with its callback
SpecWalkFair ==
    /\ SpecWalk
    /\ WF_vars(walkFilesEntry \/ walkFilesReturn \/ visitFile \/ WalkFilesClose
               \/ WalkFilesDone)
    /\ WF_vars(ProcessorReceive \/ CallbackReturn \/ ProcessorRangeEnd
               \/ WalkFilesDone)

\* ================================================================ claims
\* the blob_entries row of the requested hash (hash is the primary key)
CatEntry == CHOOSE e \in blob_entries : e.hash = catHash

\* the object at the selected placement follows the blob byte layout in the
\* entry's range: the content, compressed, encrypted at the entry's offset
\* under the key the query returned
SelectedFollowsLayout ==
    /\ req # <<>>
    /\ LET q == req[1]
           e == CatEntry
           obj == backend[q.storage_id][q.path]
       IN  /\ Len(obj) >= e.offset + e.final_size
           /\ SubSeq(obj, e.offset + 1, e.offset + e.final_size)
                = EncryptBlobEntry(Compress(e.compression_alg, fileContent),
                                   e.offset, row[1].encryption_key)

\* C1: when the object at the selected placement follows the blob layout, the
\* stream Cat returns never fails, and read to its end it has handed over
\* hashes[H].size bytes whose digest is H.
C1_CatYieldsContent ==
    SelectedFollowsLayout =>
        /\ sState # "err"
        /\ sState = "eof" =>
             /\ \E h \in hashes : h.hash = catHash /\ h.size = Len(catOut)
             /\ SHA256(catOut) = catHash

C1_Witness ==
    /\ sState = "eof"
    /\ SelectedFollowsLayout
    /\ Len(fileContent) = MaxContent
    /\ CatEntry.offset > 0
    /\ CatEntry.compression_alg = "zstd"

\* lexicographic order on labels, stated directly: a is a proper prefix of b,
\* or they first differ at a position where a has the smaller character
LexBefore(a, b) ==
    \E k \in 1 .. Len(b) :
        /\ k <= Len(a) + 1
        /\ \A j \in 1 .. k - 1 : a[j] = b[j]
        /\ (k = Len(a) + 1 \/ a[k] < b[k])

LabelOf(sid) == (CHOOSE s \in storage : s.storage_id = sid).readable_label

\* C2: the row CatReadCloser scans is a placement of the entry's blob, and no
\* other placement of that blob is on a storage whose label is
\* lexicographically smaller, whatever the insertion order of the placements
\* and whichever of them holds valid bytes.
C2_SmallestLabelSelected ==
    row # <<>> =>
        LET r == row[1]
        IN  /\ \E i \in 1 .. Len(blob_storage) :
                  /\ blob_storage[i].blob_id = r.blob_id
                  /\ blob_storage[i].storage_id = r.storage_id
                  /\ blob_storage[i].path = r.path
            /\ \A i \in 1 .. Len(blob_storage) :
                  blob_storage[i].blob_id = r.blob_id =>
                      ~LexBefore(LabelOf(blob_storage[i].storage_id),
                                 LabelOf(r.storage_id))

\* two placements, the one labelled "b" inserted first and intact, the one
\* labelled "aa" damaged inside the entry's range, and "aa" is selected
C2_Witness ==
    /\ row # <<>>
    /\ Len(blob_storage) = 3
    /\ blob_storage[2].storage_id = 1
    /\ row[1].storage_id = 2
    /\ backend[1]["p1"] = BlobObject(fileContent, CatEntry.compression_alg,
                                     CatEntry.offset, row[1].encryption_key)
    /\ backend[2]["p1"] # backend[1]["p1"]
    /\ ~SelectedFollowsLayout

\* C9: the operations on the transaction are Begin, then the query, then
\* Commit and nothing after it; CatEz has returned only with the row scanned
\* and the transaction committed; and every read and close of the returned
\* stream happens after the Commit without touching the transaction.
C9_TxCommittedBeforeStreamUse ==
    /\ \E n \in 0 .. 3 : txLog = SubSeq(<<"Begin", "QueryRow", "Commit">>, 1, n)
    /\ (tx = "done") = (Len(txLog) = 3)
    /\ (tx = "open") = (Len(txLog) \in {1, 2})
    /\ row # <<>> => Len(txLog) >= 2
    /\ cPc = "returned" => row # <<>> /\ tx = "done"
    /\ (catPos > 0 \/ sClosed \/ sState \in {"eof", "err"}) => tx = "done"

\* the transaction is committed while the stream is still being consumed
C9_Witness ==
    /\ cPc = "returned"
    /\ tx = "done"
    /\ txLog = <<"Begin", "QueryRow", "Commit">>
    /\ catPos > 0
    /\ sState = "open"
    /\ ~sClosed

\* C8: once the caller has closed the stream CatReadCloser returned, the
\* backend's ReadCloser gets closed: whenever it is not closed yet, some step
\* of the program is still possible.
C8_CloseReleasesBackend ==
    strClosed => (rcCloses > 0 \/ ENABLED NextStream)

\* C8 as a liveness property, under fair scheduling of the goroutine
C8_CloseLeadsToRelease == strClosed ~> (rcCloses > 0)

\* ---------------------------------------------------- paranoia, claims
\* where entry i has to start: at 0, or where the entry before it ends
EntryStart(i) ==
    IF i = 1 THEN 0 ELSE rowsSeen[i - 1].offset + rowsSeen[i - 1].final_size

\* where the last entry ends, and so where the padding starts
LastEnd ==
    IF rowsSeen = <<>> THEN 0
    ELSE rowsSeen[Len(rowsSeen)].offset + rowsSeen[Len(rowsSeen)].final_size

\* entry i has passed all its checks
EntryPassed(i) ==
    \/ i < Len(rowsSeen)
    \/ i = Len(rowsSeen) /\ pPc \in {"rows", "padding", "blobchecks", "verified"}

\* entry i recomputed from the downloaded bytes: its range decrypted at its
\* offset with its key, then decompressed
EntryPlain(i) ==
    LET r == rowsSeen[i]
    IN  Decompress(r.compression_alg,
                   DecryptBlobEntry(SubSeq(dlData, r.offset + 1, r.offset + r.final_size),
                                    r.offset, r.encryption_key))

\* C3: an entry whose offset is not the number of bytes consumed so far (the
\* end of the entry before it, 0 for the first) is scanned and then ends the
\* run as misaligned with no further byte read; so in a verified run the entries start at 0 and
\* each starts where the previous one ends.
C3_MisalignedEntryFails ==
    /\ \A i \in 1 .. Len(rowsSeen) :
          rowsSeen[i].offset # EntryStart(i) =>
              /\ i = Len(rowsSeen)
              /\ pPc \in {"align", "failed"}
              /\ pPc = "failed" =>
                    pErr = "got misaligned somehow. gap between entries??"
              /\ Len(dlData) = EntryStart(i)
    /\ pErr = "got misaligned somehow. gap between entries??" =>
          rowsSeen[Len(rowsSeen)].offset # EntryStart(Len(rowsSeen))
    /\ pPc = "verified" =>
          \A i \in 1 .. Len(rowsSeen) : rowsSeen[i].offset = EntryStart(i)

\* the second entry overlaps the first: (0, 2) then offset 1
C3_Witness ==
    /\ pErr = "got misaligned somehow. gap between entries??"
    /\ Len(rowsSeen) = 2
    /\ rowsSeen[1].final_size = 2
    /\ rowsSeen[2].offset = 1
    /\ Len(dlData) = 2

\* C4: every entry that has passed its checks, and so every entry of a
\* verified run, decrypts and decompresses from the downloaded bytes to data
\* whose digest is the entry's recorded hash; and the run that ends with the
\* hash mismatch has an entry whose digest differs.
C4_EntryDigestsMatch ==
    /\ \A i \in 1 .. Len(rowsSeen) :
          EntryPassed(i) =>
              /\ ~EntryPlain(i).err
              /\ SHA256(EntryPlain(i).out) = rowsSeen[i].hash
    /\ pErr = "decompressed to wrong data!" =>
          SHA256(EntryPlain(Len(rowsSeen)).out) # rowsSeen[Len(rowsSeen)].hash

C4_Witness ==
    /\ pErr = "decompressed to wrong data!"
    /\ Len(rowsSeen) = 2
    /\ rowsSeen[2].compression_alg = "zstd"

\* the padding recomputed from the downloaded bytes: everything after the
\* last entry, decrypted under padding_key from the end of the last entry
PaddingRecomputed ==
    DecryptBlobEntry(Drop(dlData, LastEnd), LastEnd, blobRow[1].padding_key)

\* C5: a run that got past the padding has read the download to its end and
\* every byte after the last entry decrypts to zero under padding_key with
\* the keystream at the end of the last entry; the run that ends with the
\* padding failure has a non-zero byte there.
C5_PaddingAllZero ==
    /\ (pPc \in {"blobchecks", "verified"}
        \/ pErr \in {"sanity check: size", "sanity check: hash"}) =>
          /\ dlEnd = "EOF"
          /\ remain = PaddingRecomputed
          /\ \A i \in 1 .. Len(remain) : remain[i] = 0
    /\ pErr = "end padding was not all zeros!" =>
          \E i \in 1 .. Len(PaddingRecomputed) : PaddingRecomputed[i] # 0

C5_Witness ==
    /\ pErr = "end padding was not all zeros!"
    /\ rowsSeen # <<>>
    /\ LastEnd > 0
    /\ Len(dlData) = LastEnd + 1

\* C6: the hasher holds every delivered byte once and in order, a verified
\* run's digest of them is the stored post-encryption hash, and the run that
\* ends with the digest failure has a different digest.
C6_PostEncDigestMatches ==
    /\ hasherPostEnc = dlData
    /\ pPc = "verified" => SHA256(dlData) = blobRow[1].final_hash
    /\ pErr = "sanity check: hash" => SHA256(dlData) # blobRow[1].final_hash

C6_Witness ==
    /\ pErr = "sanity check: hash"
    /\ rowsSeen # <<>>
    /\ Len(dlData) > LastEnd

RECURSIVE SumSizes(_)
SumSizes(rows) ==
    IF rows = <<>> THEN 0 ELSE Head(rows).final_size + SumSizes(Tail(rows))

\* C7: in a verified run the final_size of the entries plus the padding
\* drained is blobs.size, and so is the number of bytes the download yielded
\* before its end; the run that ends with the size failure yielded another
\* number of bytes.
C7_SizesAddUp ==
    /\ pPc = "verified" =>
          /\ SumSizes(rowsSeen) + Len(remain) = blobRow[1].size
          /\ Len(dlData) = blobRow[1].size
          /\ dlEnd = "EOF"
    /\ pErr = "sanity check: size" => Len(dlData) # blobRow[1].size

C7_Witness ==
    /\ pPc = "verified"
    /\ Len(rowsSeen) = 2
    /\ Len(remain) > 0

\* C10: a run that found the blob and its placement has issued exactly one
\* request, DownloadSection(path, 0, blobs.size), whether it goes on, succeeds
\* or fails; no step issues another, and every step that reads only appends
\* to the bytes delivered so far (the stream moves forward, nothing is read
\* again).
C10_OneForwardDownload ==
    /\ [](pPc = "start" => dlReqs = <<>> /\ dlData = <<>>)
    /\ []((pPc # "start" /\ pErr \notin {"This blob id does not exist",
                                       "no path in that storage"}) =>
            dlReqs = <<[path |-> placement[1], offset |-> 0,
                        length |-> blobRow[1].size]>>)
    /\ [][/\ pPc # "start" => dlReqs' = dlReqs
          /\ Len(dlData') >= Len(dlData)
          /\ SubSeq(dlData', 1, Len(dlData)) = dlData
          /\ dlData' # dlData => Len(dlReqs) = 1]_vars

C10_Witness ==
    /\ pPc = "failed"
    /\ pErr = "entry was wrong size"
    /\ Len(dlReqs) = 1
    /\ Len(dlData) > 0

\* ------------------------------------------------- BlobParanoia, claims
\* a blob id as the claim words it: exactly 64 characters, each a hex digit
IsBlobIdLine(line) ==
    /\ Len(line) = 64
    /\ \A i \in 1 .. Len(line) :
          line[i] \in {"0", "1", "2", "3", "4", "5", "6", "7", "8", "9",
                       "a", "b", "c", "d", "e", "f", "A", "B", "C", "D", "E", "F"}

\* what the loop has logged for line i
LoggedFor(i) == SelectSeq(bpLog, LAMBDA e : e.line = i)

WhatLogged(i) == [k \in 1 .. Len(LoggedFor(i)) |-> LoggedFor(i)[k].what]

\* C11: the lines are handled in input order; an empty line is skipped with
\* no download; a non-empty line that is not 64 hex characters ends the run
\* with a panic; a blob id line starts its download only after the blob of
\* every earlier blob id line has been verified; and after a panic (a
\* malformed line or a failed blob) no step follows, so no later line is
\* examined.
C11_LinesInOrder ==
    /\ lineIdx <= Len(stdinLines)
    /\ \A k \in 1 .. Len(bpLog) - 1 : bpLog[k].line <= bpLog[k + 1].line
    /\ \A i \in 1 .. Len(stdinLines) :
          LET line == stdinLines[i]
          IN  IF i > lineIdx THEN WhatLogged(i) = <<>>
              ELSE IF line = <<>> THEN WhatLogged(i) = <<"skip">>
              ELSE IF ~IsBlobIdLine(line)
              THEN /\ WhatLogged(i) = <<"malformed">>
                   /\ bpPc = "panicked"
                   /\ i = lineIdx
              ELSE /\ WhatLogged(i) \in {<<"download">>, <<"download", "verified">>,
                                         <<"download", "failed">>}
                   /\ i < lineIdx => WhatLogged(i) = <<"download", "verified">>
                   /\ WhatLogged(i) = <<"download">> <=> (i = lineIdx /\ bpPc = "running")
                   /\ WhatLogged(i) = <<"download", "failed">> =>
                          (i = lineIdx /\ bpPc = "panicked")
    /\ bpPc = "panicked" => ~ENABLED NextBlobParanoia

\* a blob verified, an empty line skipped, then a line of 64 characters that
\* are not all hex digits
C11_Witness ==
    /\ bpPc = "panicked"
    /\ Len(stdinLines) = 3
    /\ stdinLines[2] = <<>>
    /\ Len(stdinLines[3]) = 64
    /\ lineIdx = 3
    /\ WhatLogged(1) = <<"download", "verified">>
    /\ WhatLogged(3) = <<"malformed">>

\* ------------------------------------------- paranoia, the order of checks
\* the entries before entry n hold every per-entry check, recomputed from the
\* rows and the downloaded bytes
EarlierEntriesHold(n) ==
    \A i \in 1 .. n - 1 :
        /\ rowsSeen[i].offset = EntryStart(i)
        /\ Len(dlData) >= rowsSeen[i].offset + rowsSeen[i].final_size
        /\ ~EntryPlain(i).err
        /\ SHA256(EntryPlain(i).out) = rowsSeen[i].hash

\* the entry scanned last starts where the one before it ends
LastAligned ==
    rowsSeen # <<>> /\ rowsSeen[Len(rowsSeen)].offset = EntryStart(Len(rowsSeen))

\* the download ended where the entry scanned last ends
LastSizeHolds ==
    Len(dlData) = rowsSeen[Len(rowsSeen)].offset + rowsSeen[Len(rowsSeen)].final_size

\* the digest of what the entry scanned last drained is its recorded hash
LastHashHolds == SHA256(verify) = rowsSeen[Len(rowsSeen)].hash

AllEntriesHold == EarlierEntriesHold(Len(rowsSeen) + 1)

PaddingHolds == remain = Zeros(Len(remain))

\* a failed run reports one error and stops; every check before the reported
\* one held, in the order alignment, drain, (the two per-entry checks), padding,
\* total size, post-encryption digest
OneErrorInOrder ==
    /\ (pPc = "failed") = (pErr # "")
    /\ pPc = "failed" => ~ENABLED NextParanoia
    /\ pErr = "got misaligned somehow. gap between entries??" =>
          EarlierEntriesHold(Len(rowsSeen)) /\ ~LastAligned
    /\ pErr \in {"decompress error", "read error"} =>
          EarlierEntriesHold(Len(rowsSeen))
    /\ pErr = "padding read error" => AllEntriesHold
    /\ pErr = "end padding was not all zeros!" => AllEntriesHold /\ ~PaddingHolds
    /\ pErr = "sanity check: size" =>
          /\ AllEntriesHold /\ PaddingHolds
          /\ Len(dlData) # blobRow[1].size
    /\ pErr = "sanity check: hash" =>
          /\ AllEntriesHold /\ PaddingHolds
          /\ Len(dlData) = blobRow[1].size
          /\ SHA256(dlData) # blobRow[1].final_hash

\* C12 as claimed: one error, the first in the order alignment, plaintext
\* hash comparison, end-position check, padding, total size, post-encryption
\* digest; so a run that reports the end-position failure has an entry whose
\* hash comparison, which comes before it, held.
C12_FirstFailureInSpecOrder ==
    /\ OneErrorInOrder
    /\ pErr = "decompressed to wrong data!" =>
          EarlierEntriesHold(Len(rowsSeen)) /\ LastAligned /\ ~LastHashHolds
    /\ pErr = "entry was wrong size" =>
          /\ EarlierEntriesHold(Len(rowsSeen)) /\ LastAligned
          /\ LastHashHolds
          /\ ~LastSizeHolds

\* C12, amended: one error, the first in the order of the code: alignment,
\* then (after the drain) the end-position check, then the plaintext hash
\* comparison, then padding, total size, post-encryption digest; so a run that
\* reports the hash mismatch has an entry that ended where it should, and a
\* run that reports the end-position failure says nothing about the hash.
C12_FirstFailureInCodeOrder ==
    /\ OneErrorInOrder
    /\ pErr = "entry was wrong size" =>
          EarlierEntriesHold(Len(rowsSeen)) /\ LastAligned /\ ~LastSizeHolds
    /\ pErr = "decompressed to wrong data!" =>
          /\ EarlierEntriesHold(Len(rowsSeen)) /\ LastAligned
          /\ LastSizeHolds
          /\ ~LastHashHolds

\* the download ends inside the second entry: it is the wrong size and its
\* digest is wrong as well, and the size is what the run reports
C12_Witness ==
    /\ pErr = "entry was wrong size"
    /\ Len(rowsSeen) = 2
    /\ ~LastSizeHolds
    /\ ~LastHashHolds

\* ------------------------------------------------------- files, claims
\* the interval [start, end) of a files row, a NULL end counting as unbounded
Overlap(a, b) ==
    /\ (IF a.end = <<>> THEN TRUE ELSE b.start < a.end[1])
    /\ (IF b.end = <<>> THEN TRUE ELSE a.start < b.end[1])

LiveRows(p) == {r \in files : r.path = p /\ r.end = <<>>}

\* C14 as claimed: each path has at most one row with end NULL, and no two
\* rows of the same path have overlapping [start, end) intervals.
C14_NoOverlap ==
    /\ \A p \in Paths : Cardinality(LiveRows(p)) <= 1
    /\ \A a \in files, b \in files :
          (a # b /\ a.path = b.path) => ~Overlap(a, b)

\* C14, amended: each path has at most one row with end NULL, and no two rows
\* of the same path have the same start or the same non-NULL end, and every
\* row ends after it starts (overlaps are not excluded).
C14_LiveRowUnique ==
    /\ \A p \in Paths : Cardinality(LiveRows(p)) <= 1
    /\ \A a \in files, b \in files :
          (a # b /\ a.path = b.path) =>
              /\ a.start # b.start
              /\ a.end # <<>> => a.end # b.end
    /\ \A a \in files : a.end # <<>> => a.start < a.end[1]

\* a path with a closed row and a live row that starts inside it
C14_Witness ==
    \E a \in files, b \in files :
        /\ a.path = b.path
        /\ a.end # <<>>
        /\ b.end = <<>>
        /\ a.start < b.start
        /\ b.start < a.end[1]

\* ------------------------------------------------ blobs, claims
\* the last statement was a DELETE of a row of blobs
Deleted == lastExec # <<>>

ReferencedBy(t, b) == {i \in 1 .. Len(t) : t[i].blob_id = b}

\* C13 as claimed: deleting a row of blobs succeeds, no blob_entries row and
\* no blob_storage row references the blob afterwards, and the hashes and the
\* files rows are what they were.
C13_DeleteCascades ==
    Deleted =>
        LET d == lastExec[1]
        IN  /\ ~d.err
            /\ \A x \in blobs : x.blob_id # d.blob_id
            /\ \A e \in blob_entries : e.blob_id # d.blob_id
            /\ ReferencedBy(blob_storage, d.blob_id) = {}
            /\ hashes = d.before.hashes
            /\ files = d.before.files

\* C13, amended: deleting a row of blobs that no blob_storage row references
\* succeeds and removes the row and every blob_entries row that references
\* it, and nothing else; deleting a row of blobs that a blob_storage row
\* references fails and changes nothing; in both cases every hashes row,
\* every files row and every blob_storage row is left unchanged.
C13_DeleteRestrictedByPlacement ==
    Deleted =>
        LET d == lastExec[1]
            b == d.blob_id
        IN  /\ d.err = (ReferencedBy(d.before.blob_storage, b) # {})
            /\ hashes = d.before.hashes
            /\ files = d.before.files
            /\ blob_storage = d.before.blob_storage
            /\ IF d.err
               THEN /\ blobs = d.before.blobs
                    /\ blob_entries = d.before.blob_entries
               ELSE /\ blobs = {x \in d.before.blobs : x.blob_id # b}
                    /\ blob_entries = {e \in d.before.blob_entries : e.blob_id # b}

\* a blob with an entry and a placement, a file of the entry's hash: the
\* DELETE has failed
C13_Witness ==
    /\ Deleted
    /\ lastExec[1].err
    /\ \E e \in blob_entries : e.blob_id = lastExec[1].blob_id
    /\ files # {}

\* a blob with an entry and no placement: the DELETE has removed the entry
C13_WitnessCascade ==
    /\ Deleted
    /\ ~lastExec[1].err
    /\ \E e \in lastExec[1].before.blob_entries : e.blob_id = lastExec[1].blob_id
    /\ files # {}

\* ---------------------------------------------- FormatHTTPRange, claims
\* a byte range as an HTTP server reads it: "bytes=", the first byte
\* position, "-", the last byte position, each one or more decimal digits
DigitChars == {"0", "1", "2", "3", "4", "5", "6", "7", "8", "9"}

IsPosition(t) == t # <<>> /\ \A i \in 1 .. Len(t) : t[i] \in DigitChars

RECURSIVE PositionValue(_)
PositionValue(t) ==
    IF t = <<>> THEN 0
    ELSE 10 * PositionValue(SubSeq(t, 1, Len(t) - 1))
         + (CHOOSE d \in 0 .. 9 : LowerHex[d + 1] = t[Len(t)])

\* the string after "bytes=", cut at its first "-"
RangeSpec(str) == SubSeq(str, 7, Len(str))

DashAt(str) ==
    IF \E k \in 1 .. Len(RangeSpec(str)) : RangeSpec(str)[k] = "-"
    THEN CHOOSE k \in 1 .. Len(RangeSpec(str)) :
            /\ RangeSpec(str)[k] = "-"
            /\ \A j \in 1 .. k - 1 : RangeSpec(str)[j] # "-"
    ELSE 0

FirstPos(str) == SubSeq(RangeSpec(str), 1, DashAt(str) - 1)

LastPos(str) == SubSeq(RangeSpec(str), DashAt(str) + 1, Len(RangeSpec(str)))

WellFormedRange(str) ==
    /\ Len(str) > 6
    /\ SubSeq(str, 1, 6) = <<"b", "y", "t", "e", "s", "=">>
    /\ DashAt(str) > 0
    /\ IsPosition(FirstPos(str))
    /\ IsPosition(LastPos(str))
    /\ PositionValue(FirstPos(str)) <= PositionValue(LastPos(str))

\* the range names exactly the length bytes [offset, offset+length)
CoversSection(str, offset, length) ==
    /\ WellFormedRange(str)
    /\ PositionValue(FirstPos(str)) = offset
    /\ PositionValue(LastPos(str)) = offset + length - 1
    /\ PositionValue(FirstPos(str)) .. PositionValue(LastPos(str))
         = {offset + i : i \in 0 .. length - 1}

\* C15 as claimed: for every offset >= 0 and length >= 0 the formatted range
\* is well-formed, from offset to offset+length-1, and covers exactly the
\* length bytes from offset on.
C15_RangeCoversSection ==
    rOut # <<>> => CoversSection(rOut[1], rOffset, rLength)

\* C15, amended: for every offset >= 0 and length >= 1 the formatted range is
\* well-formed, from offset to offset+length-1, and covers exactly the length
\* bytes from offset on; for length 0 the formatted string is no well-formed
\* range (its last position is offset-1).
C15_RangeCoversNonEmptySection ==
    rOut # <<>> =>
        IF rLength >= 1
        THEN CoversSection(rOut[1], rOffset, rLength)
        ELSE ~WellFormedRange(rOut[1])

\* "bytes=12-15"
C15_Witness ==
    /\ rOut = << <<"b", "y", "t", "e", "s", "=", "1", "2", "-", "1", "5">> >>
    /\ rOffset = 12
    /\ rLength = 4

\* -------------------------------------------------- HasherSizer, claims
\* the lengths of the first k Write calls, summed
RECURSIVE SumLens(_, _)
SumLens(ws, k) == IF k = 0 THEN 0 ELSE SumLens(ws, k - 1) + Len(ws[k])

RECURSIVE Concat(_)
Concat(ws) == IF ws = <<>> THEN <<>> ELSE Head(ws) \o Concat(Tail(ws))

\* C16: every Size() result is the summed length of some prefix of the Write
\* calls issued by the time of the call, the results never decrease, and once
\* every Write has returned the size is the number of bytes written and the
\* hash is the digest of those bytes in order.
C16_SizeIsPrefixSum ==
    /\ \A i \in 1 .. Len(sizeResults) :
          \E k \in 0 .. sizeResults[i].issued :
              sizeResults[i].size = SumLens(hsIssued, k)
    /\ \A i \in 1 .. Len(sizeResults) - 1 :
          sizeResults[i].size <= sizeResults[i + 1].size
    /\ (hsWrites = <<>> /\ wPc = "idle") =>
          /\ hsSize = SumLens(hsIssued, Len(hsIssued))
          /\ Len(hsHasher) = hsSize
          /\ Hash(hsHasher) = SHA256(Concat(hsIssued))

\* two Size() calls around the second Write: the first sees the first Write
\* only, the second sees both while the hasher has not been written yet
C16_Witness ==
    /\ Len(hsIssued) = 2
    /\ Len(hsIssued[1]) = 1
    /\ Len(hsIssued[2]) = 1
    /\ wPc = "added"
    /\ Len(sizeResults) = 2
    /\ sizeResults[1].size = 1
    /\ sizeResults[2].size = 2
    /\ Len(hsHasher) = 1

\* ------------------------------------------ paranoia, zero-length entries
\* entries i and i+1 share an offset, one of them of length zero
SharedOffset(i) ==
    /\ i < Len(rowsSeen)
    /\ rowsSeen[i].offset = rowsSeen[i + 1].offset
    /\ (rowsSeen[i].final_size = 0) # (rowsSeen[i + 1].final_size = 0)

\* the entry scanned last is an empty file stored as it is, at the position
\* the download has reached
LastIsEmptyFile ==
    /\ rowsSeen # <<>>
    /\ rowsSeen[Len(rowsSeen)].final_size = 0
    /\ rowsSeen[Len(rowsSeen)].compression_alg = ""
    /\ rowsSeen[Len(rowsSeen)].hash = SHA256(<<>>)
    /\ rowsSeen[Len(rowsSeen)].offset = EntryStart(Len(rowsSeen))

\* C17: of two entries at one offset the zero-length one is scanned first;
\* the entry after a zero-length entry at its offset is not reported
\* misaligned; a zero-length entry is never reported as the wrong size, and
\* any entry is only when the download ended before the entry's end; and an
\* empty file stored as a zero-length entry where the download stands fails
\* none of the per-entry checks.
C17_ZeroLengthEntryFirst ==
    /\ \A i \in 1 .. Len(rowsSeen) - 1 :
          SharedOffset(i) =>
              /\ rowsSeen[i].final_size = 0
              /\ ~(i + 1 = Len(rowsSeen)
                   /\ pErr = "got misaligned somehow. gap between entries??")
    /\ pErr = "entry was wrong size" =>
          /\ rowsSeen[Len(rowsSeen)].final_size > 0
          /\ dlEnd = "EOF"
          /\ Len(dlData) < rowsSeen[Len(rowsSeen)].offset
                             + rowsSeen[Len(rowsSeen)].final_size
    /\ LastIsEmptyFile =>
          pErr \notin {"got misaligned somehow. gap between entries??",
                       "decompress error", "entry was wrong size",
                       "decompressed to wrong data!"}

\* an empty file and a one-byte file both at offset 0, then padding: verified
C17_Witness ==
    /\ pPc = "verified"
    /\ Len(rowsSeen) = 2
    /\ rowsSeen[1].offset = 0
    /\ rowsSeen[2].offset = 0
    /\ rowsSeen[1].final_size = 0
    /\ rowsSeen[2].final_size > 0
    /\ rowsSeen[1].hash = SHA256(<<>>)

\* ------------------------------------------ paranoia, a blob of no entries
\* C18: a run that scanned no entry and got past the padding has read the
\* download to its end and taken every byte of it as padding, decrypted from
\* offset 0 under padding_key; and such a run verifies only when at least one
\* byte was read, every byte decrypts to zero, the bytes are blobs.size many
\* and their digest is the stored post-encryption hash.
C18_NoEntriesStillVerified ==
    /\ (rowsSeen = <<>> /\ (pPc \in {"blobchecks", "verified"}
                            \/ pErr \in {"end padding was not all zeros!",
                                         "sanity check: size", "sanity check: hash"})) =>
          /\ dlEnd = "EOF"
          /\ remain = DecryptBlobEntry(dlData, 0, blobRow[1].padding_key)
    /\ (rowsSeen = <<>> /\ pPc = "verified") =>
          /\ Len(dlData) >= 1
          /\ Len(dlData) = blobRow[1].size
          /\ \A i \in 1 .. Len(dlData) :
                Xor(dlData[i], Keystream(blobRow[1].padding_key, i - 1)) = 0
          /\ SHA256(dlData) = blobRow[1].final_hash
          /\ Len(dlReqs) = 1

\* a blob of two bytes of padding and no entry: verified
C18_Witness ==
    /\ rowsSeen = <<>>
    /\ pPc = "verified"
    /\ Len(dlData) = 2
    /\ remain = <<0, 0>>

\* ------------------------------------------- paranoia, the entries' states
EntryErrors ==
    {"got misaligned somehow. gap between entries??", "decompress error",
     "read error", "entry was wrong size", "decompressed to wrong data!"}

\* the state of the i-th entry of the blob in (offset, final_size) order:
\* Pending until its row is scanned, Draining while the loop body works on
\* it, Failed when the run ended with an error of that entry, else Verified
EntryState(i) ==
    IF i > Len(rowsSeen) THEN "Pending"
    ELSE IF i < Len(rowsSeen) THEN "Verified"
    ELSE IF pErr \in EntryErrors THEN "Failed"
    ELSE IF pPc \in {"align", "drain", "checks"} THEN "Draining"
    ELSE "Verified"

EntryStatesOrdered ==
    /\ \A i \in 1 .. Len(rowsSeen) - 1 :
          \/ rowsSeen[i].offset < rowsSeen[i + 1].offset
          \/ /\ rowsSeen[i].offset = rowsSeen[i + 1].offset
             /\ rowsSeen[i].final_size <= rowsSeen[i + 1].final_size
    /\ \A i \in 1 .. MaxEntries :
          /\ EntryState(i) # "Pending" =>
                /\ \A j \in 1 .. i - 1 : EntryState(j) = "Verified"
                /\ EarlierEntriesHold(i)
          /\ EntryState(i) \in {"Draining", "Failed"} =>
                \A j \in i + 1 .. MaxEntries : EntryState(j) = "Pending"
          /\ EntryState(i) = "Failed" =>
                pPc \notin {"padding", "blobchecks", "verified"}

EntryStateStep ==
    /\ \A i \in 1 .. MaxEntries :
          \/ EntryState(i)' = EntryState(i)
          \/ EntryState(i) = "Pending" /\ EntryState(i)' = "Draining"
          \/ EntryState(i) = "Draining" /\ EntryState(i)' \in {"Verified", "Failed"}
    /\ \A i \in 1 .. MaxEntries : EntryState(i) # "Failed"

\* C19: an entry goes from Pending to Draining to Verified or Failed and
\* stays there; the entries start draining in (offset, final_size) order, one
\* at a time, each only when every earlier one is Verified (its checks hold
\* of the downloaded bytes); and once an entry is Failed no step follows: no
\* later entry leaves Pending and neither the padding nor the blob checks
\* are passed.
C19_EntryStateMachine ==
    /\ []EntryStatesOrdered
    /\ [][EntryStateStep]_vars

\* the first entry Verified, the second Failed on its digest
C19_Witness ==
    /\ Len(rowsSeen) = 2
    /\ EntryState(1) = "Verified"
    /\ EntryState(2) = "Failed"
    /\ pErr = "decompressed to wrong data!"

\* ------------------------------------------------- cat, the requested range
\* two objects hold the same bytes at positions [offset, offset + length),
\* and the range begins inside both or inside neither
AgreeOn(o1, o2, offset, length) ==
    /\ (offset <= Len(o1)) = (offset <= Len(o2))
    /\ \A i \in offset + 1 .. offset + length :
          /\ (i <= Len(o1)) = (i <= Len(o2))
          /\ i <= Len(o1) => o1[i] = o2[i]

CatOf(obj) ==
    ReadAll(SectionOf(obj, req[1].offset, req[1].length), pipe[1], 0, <<>>, "")

CatObject == backend[req[1].storage_id][req[1].path]

\* the objects that differ from the stored one outside the entry's range
\* only: any bytes before it and, when the stored object reaches the range's
\* end, any bytes after it, up to one more than the stored object has
Twins ==
    LET o == row[1].offset
        n == row[1].final_size
        obj == CatObject
    IN  IF Len(obj) < o THEN SeqsUpTo(o - 1)
        ELSE {pre \o SubSeq(obj, o + 1, IF o + n < Len(obj) THEN o + n ELSE Len(obj))
                  \o suf :
                 pre \in SeqsOfLen(o),
                 suf \in IF Len(obj) < o + n THEN {<<>>}
                         ELSE SeqsUpTo(Len(obj) - (o + n) + 1)}

Pristine ==
    BlobObject(fileContent, row[1].compression_alg, row[1].offset,
               row[1].encryption_key)

\* C20: the one request CatReadCloser makes is for bytes
\* [offset, offset + final_size) of the entry; every object that agrees with
\* the stored one on that range gives the result the finished run gave; and
\* an object that agrees with the blob as written on that range is read to
\* the end without an error, whatever its padding holds.
C20_OnlyTheEntrysRange ==
    /\ Len(req) <= 1
    /\ req # <<>> =>
          /\ req[1].offset = CatEntry.offset
          /\ req[1].length = CatEntry.final_size
          /\ sState \in {"eof", "err"} =>
                /\ CatObject \in Twins
                /\ \A o \in Twins :
                      /\ AgreeOn(o, CatObject, CatEntry.offset, CatEntry.final_size)
                      /\ CatOf(o) = [state |-> sState, err |-> sErr, out |-> catOut]
          /\ AgreeOn(CatObject, Pristine, row[1].offset, row[1].final_size) =>
                /\ sState # "err"
                /\ sState = "eof" => catOut = fileContent

\* a blob whose padding byte is damaged, the entry behind another one, read to
\* its end
C20_Witness ==
    /\ req # <<>>
    /\ sState = "eof"
    /\ row[1].offset = 1
    /\ Len(fileContent) = 2
    /\ catOut = fileContent
    /\ CatObject = FlipAt(Pristine, Len(Pristine))

\* ------------------------------------- cat of an entry of a verified blob
\* C21: Cat and BlobReaderParanoia decrypt and decompress an entry with the
\* same key, the same keystream offset (the entry's offset), the same
\* length (final_size) and the same algorithm, and the Cat of an entry of a
\* blob that passed paranoia, served from the same storage, ends with bytes
\* whose digest is the entry's hash.
C21_CatAgreesWithParanoia ==
    catAfter # <<>> =>
        LET c == catAfter[1]
        IN  /\ c.pipe.key = c.entry.encryption_key
            /\ c.pipe.seek = c.entry.offset
            /\ c.pipe.alg = c.entry.compression_alg
            /\ c.request.offset = c.entry.offset
            /\ c.request.length = c.entry.final_size
            /\ c.result.state = "eof"
            /\ SHA256(c.result.out) = c.entry.hash

\* ------------------------------------- ReadCloserToReader, read to the end
\* the bytes of rc, named by their positions
RcBytes == [i \in 1 .. rcLen |-> i]

\* the consumer has been told the end of the stream
AtEnd == cons \in {"EOF", "error"}

\* a step of the copying goroutine, or the end of Copy, is still to come
CloseToCome ==
    ENABLED (CopyRead \/ CopyWriteReturn \/ PipeCloseWithError \/ CopyDeferredClose
             \/ CopyReturn)

\* what the consumer has received is rc's bytes so far, in order, and the end
\* it is told is rc's own
ReceivesRcBytes ==
    /\ received = Take(RcBytes, Len(received))
    /\ AtEnd => received = RcBytes /\ cons = rcEnd

\* C22 as stated: whatever ReadCloser was wrapped, the consumer that reads to
\* the end receives rc's bytes in order and then rc's EOF or error, and
\* rc.Close is called exactly once: never twice, and at the end either it has
\* been called or the step that calls it is still to come.
C22_ClosedExactlyOnce ==
    /\ ReceivesRcBytes
    /\ rcCloses <= 1
    /\ AtEnd => rcCloses = 1 \/ CloseToCome

\* C22, amended: the same, except that a *fakeReadCloser handed to
\* ReadCloserToReader is never closed: its reader is used in its place.
C22_ClosedOnceUnlessFakeReadCloser ==
    /\ ReceivesRcBytes
    /\ rcCloses <= 1
    /\ rcKind = "ReadCloser" /\ AtEnd => rcCloses = 1 \/ CloseToCome
    /\ rcKind = "fakeReadCloser" => rcCloses = 0

\* Copy called after a first Read, the goroutine copying behind it: all bytes
\* received, then rc's error, rc closed once, Copy panicking
C22_Witness ==
    /\ rcKind = "ReadCloser"
    /\ frStarted
    /\ copyPc = "panicked"
    /\ cons = "error"
    /\ rcLen = MaxStream
    /\ received = RcBytes
    /\ rcCloses = 1
    /\ gPc = "done"

\* ------------------------------------------------------------ WalkFiles
WalkPanicked == walkPc = "panicked" \/ procPc = "panicked"

WalkFinished == walkPc = "returned" /\ procPc = "exited"

\* fn is called with the files handed over, each once, in the order of the
\* visits, one call at a time; WalkFiles has returned only when every call
\* has; and without a panic some step is possible until both have ended
WalkInOrder ==
    /\ invoked \o filesCh = handed
    /\ \A i \in 1 .. Len(handed) : handed[i] = i
    /\ Len(filesCh) <= ChanCap
    /\ completed = IF procPc \in {"fn", "panicked"} THEN Len(invoked) - 1
                   ELSE Len(invoked)
    /\ walkPc = "returned" =>
          /\ invoked = handed
          /\ completed = Len(handed)
          /\ procPc = "exited"
    /\ ~WalkPanicked /\ ~WalkFinished => ENABLED NextWalk

\* C23: for any number of files, none and more than the channel holds
\* included, the callback is invoked once per file handed over, in the order
\* of the visits, WalkFiles returns only after the last call has returned,
\* and unless the walker or the callback panics the two goroutines do not
\* deadlock and both end.
C23_WalkFilesDeliversAll ==
    /\ []WalkInOrder
    /\ <>(WalkPanicked \/ WalkFinished)

\* more files than the channel holds, all processed, WalkFiles returned
C23_Witness ==
    /\ WalkFinished
    /\ Len(handed) = MaxFiles
    /\ MaxFiles > ChanCap
    /\ invoked = handed
    /\ completed = MaxFiles

====
